---- MODULE Spec2Model ----
(***************************************************************************)
(* Model of the cluster engine (kmeans) and the K selector (suggestK) of   *)
(* src/src/analysis/cluster.ts, of cosineSimilarity of                     *)
(* src/src/analysis/embeddings.ts and of the search module                 *)
(* (vectorSearch, ftsSearch, hybridSearch) of src/unnamed/part_000, of     *)
(* getClusterLabels of cluster.ts, of runClustering and generateEmbeddings  *)
(* of src/src/analysis/index.ts with the tables they write, of the         *)
(* embedder handle of embeddings.ts and of the Analyze screen of           *)
(* src/src/ui/screens/Analyze.tsx.                                         *)
(*                                                                         *)
(* Numbers.  The source computes in IEEE doubles.  The model computes in   *)
(* exact arithmetic: a point has integer coordinates and a centroid is     *)
(* kept in fixed point, as Scale times its value, where Scale is a common  *)
(* multiple of every possible cluster size, so that every mean sum/count   *)
(* is an integer.  euclideanDistance returns a square root; the model      *)
(* keeps the squared distance, which orders the same way, and which is     *)
(* what the callers square back to (dist * dist).                          *)
(*                                                                         *)
(* Random draws (Math.random) are nondeterministic choices.                *)
(***************************************************************************)
EXTENDS Integers, Sequences, FiniteSets, TLC

VARIABLES
    points,          \* kmeans/suggestK argument: the list of vectors
    k,               \* kmeans argument
    maxIterations,   \* kmeans argument
    pc,              \* position in kmeans
    dim,             \* kmeans local: firstPoint.length
    centroids,       \* kmeans local
    initC,           \* initializeCentroids loop variable c
    assignments,     \* kmeans local
    iterations,      \* kmeans local
    iter,            \* kmeans loop variable
    newCentroids,    \* kmeans loop local
    result,          \* value returned by kmeans (NoResult before it returns)
    rounds,          \* history: number of loop bodies (lines 182-193) executed
    previous,        \* history: the assignment vector the last round started
                     \*          from (<<>> before the first round)
    skpc,            \* position in suggestK
    maxK,            \* suggestK argument
    maxClusters,     \* suggestK local
    skK,             \* suggestK loop variable k
    inertias,        \* suggestK local
    suggested,       \* <<value returned by suggestK>> (<<>> before it returns)
    kmeansCalls,     \* history: the (k, maxIterations) of every kmeans call
                     \*          made by suggestK
    scanIn,          \* the elbow scan of suggestK taken alone: its inertias
    scanOut,         \* the elbow scan taken alone: <<its bestK>> (<<>> before)
    cosA,            \* cosineSimilarity taken alone: argument a
    cosB,            \* cosineSimilarity taken alone: argument b
    cosOut,          \* cosineSimilarity taken alone: <<its outcome>> (<<>> before)
    embeddings,      \* the store: embeddings[id] is <<>> for a NULL embedding
                     \*            column of bookmark id, <<vector>> otherwise
    limit,           \* hybridSearch argument
    hpc,             \* position in hybridSearch
    queryEmbedding,  \* vectorSearch local: <<embed(query)>> (<<>> before)
    vectorResults,   \* hybridSearch local: what vectorSearch returned
    ftsResults,      \* hybridSearch local: what ftsSearch returned, or [] in
                     \*                     place of its failure
    ftsReturned,     \* history: what ftsSearch itself returned (<<>> when it
                     \*          failed)
    ftsFailed,       \* history: ftsSearch failed
    merged,          \* <<value returned by hybridSearch>> (<<>> before)
    lblPoints,       \* getClusterLabels taken alone: argument points
    lblTexts,        \* getClusterLabels taken alone: argument texts
    lblAssignments,  \* getClusterLabels taken alone: argument assignments
    lblK,            \* getClusterLabels taken alone: argument k
    lblCentroids,    \* getClusterLabels taken alone: <<centroids>>, or <<>>
                     \*                               when the argument is omitted
    lblOut,          \* getClusterLabels taken alone: <<labels>> (<<>> before)
    bookmarks,       \* the store: the rows of table bookmarks, row i has id i
    topics,          \* the store: the rows of table topics, in insertion order
    bookmarkTopics,  \* the store: the rows of table bookmark_topics
    rcK,             \* runClustering argument k: <<k>>, or <<>> when omitted
    rcpc,            \* position in runClustering
    numClusters,     \* runClustering local
    clustered,       \* <<value returned by runClustering>> (<<>> before)
    extractor,       \* embeddings.ts: the provider handle (0 for null)
    pipelines,       \* history: the number of pipeline() calls, each of which
                     \*          creates a provider
    embedCalls,      \* the calls of getEmbedder, embed and embedBatch: for each
                     \*          its function, its position, its handle, and
                     \*          the texts it has left to embed
    genStore,        \* the store: genStore[id] is <<>> for a NULL embedding
                     \*            column of bookmark id, <<e>> otherwise
    gpc,             \* position in generateEmbeddings
    todo,            \* generateEmbeddings local bookmarks: the ids selected
    processed,       \* generateEmbeddings local
    embedCounts,     \* history: embedCounts[id] is the number of embeddings
                     \*          embed returned for bookmark id, in all passes
    outcomes,        \* history: the outcome of every finished pass
    state,           \* Analyze: the component state "state"
    screen,          \* "analyze" while Analyze is shown, "left" after onBack
    ops,             \* the analysis operations the handlers started: for each
                     \*          its handler and its phase
    pressed          \* history: the number of key presses delivered

vars == <<points, k, maxIterations, pc, dim, centroids, initC, assignments,
          iterations,
          iter, newCentroids, result, rounds, previous,
          skpc, maxK, maxClusters, skK, inertias, suggested, kmeansCalls,
          scanIn, scanOut, cosA, cosB, cosOut,
          embeddings, limit, hpc, queryEmbedding, vectorResults, ftsResults,
          ftsReturned, ftsFailed, merged,
          lblPoints, lblTexts, lblAssignments, lblK, lblCentroids, lblOut,
          bookmarks, topics, bookmarkTopics, rcK, rcpc, numClusters, clustered,
          extractor, pipelines, embedCalls,
          genStore, gpc, todo, processed, embedCounts, outcomes,
          state, screen, ops, pressed>>

kmVars == <<points, k, maxIterations, pc, dim, centroids, initC, assignments,
            iterations, iter, newCentroids, result, rounds, previous>>

skVars == <<skpc, maxK, maxClusters, skK, inertias, suggested, kmeansCalls>>

scanVars == <<scanIn, scanOut>>

cosVars == <<cosA, cosB, cosOut>>

searchVars == <<embeddings, limit, hpc, queryEmbedding, vectorResults,
                ftsResults, ftsReturned, ftsFailed, merged>>

lblVars == <<lblPoints, lblTexts, lblAssignments, lblK, lblCentroids, lblOut>>

rcVars == <<bookmarks, topics, bookmarkTopics, rcK, rcpc, numClusters, clustered>>

embVars == <<extractor, pipelines, embedCalls>>

genVars == <<genStore, gpc, todo, processed, embedCounts, outcomes>>

uiVars == <<state, screen, ops, pressed>>

\* the variables outside the cluster engine and the K selector
restVars == <<cosVars, searchVars, lblVars, rcVars, embVars, genVars, uiVars>>

---------------------------------------------------------------------------
(* Bounds of the model *)

\* largest number of points of a direct kmeans call
MaxN == 4
\* largest number of points of a direct kmeans call whose points come in
\* every order; longer lists come in one order per multiset of points
MaxAnyOrder == 3
\* largest maxIterations of a direct kmeans call (besides the default)
MaxIter == 2
\* largest number of points of a suggestK call
MaxNS == 6
\* largest maxK of a suggestK call
MaxMaxK == 3
\* largest number of inertias of an elbow scan taken alone
MaxInertias == 4
\* largest inertia of an elbow scan taken alone
MaxInertia == 3
\* number of bookmarks in the store of a search
MaxDocs == 3
\* largest limit of a search
MaxLimit == 3
\* largest number of points of a getClusterLabels call taken alone
MaxLabelDocs == 2
\* largest k of a getClusterLabels call taken alone
MaxLabelK == 2
\* largest number of bookmarks with an embedding in the store of a
\* runClustering call
MaxRunDocs == 4
\* number of calls of getEmbedder, embed and embedBatch
MaxEmbedCalls == 3
\* largest number of texts of an embedBatch call
MaxBatch == 2
\* largest number of bookmarks in the store of generateEmbeddings
MaxGenDocs == 3
\* number of passes of generateEmbeddings
MaxPasses == 3
\* number of key presses delivered to the Analyze screen
MaxKeys == 4

(* Program constants *)

DefaultMaxIterations == 100
SuggestKMaxIterations == 50
SmallInputLimit == 3
DefaultBestK == 2
RunClusteringMaxK == 10

\* the vectors the points are drawn from (dimension 2)
PointUniverse == {<<0, 0>>, <<2, 0>>, <<1, 1>>}

NoResult == "none"
\* stands for the double Infinity, above every distance
Infinity == -1

Max(a, b) == IF a >= b THEN a ELSE b
Min(a, b) == IF a <= b THEN a ELSE b

RECURSIVE Gcd(_, _)
Gcd(a, b) == IF b = 0 THEN a ELSE Gcd(b, a % b)

RECURSIVE LcmUpTo(_)
LcmUpTo(n) == IF n <= 1 THEN 1
              ELSE LET l == LcmUpTo(n - 1) IN (l * n) \div Gcd(l, n)

\* the fixed-point unit: every cluster size 1..N divides it
Scale == LcmUpTo(Max(MaxN, MaxNS))

PointLists(n) == UNION {[1..m -> PointUniverse] : m \in 0..n}

\* the lexicographic order of two vectors of equal length
LexLeq(a, b) ==
    \/ a = b
    \/ \E i \in 1..Len(a) : /\ a[i] < b[i]
                            /\ \A j \in 1..(i - 1) : a[j] = b[j]

\* the point lists in non-decreasing order: one list per multiset of points
SortedPointLists(n) ==
    {s \in PointLists(n) : \A i \in 1..Len(s) : \A j \in i..Len(s) : LexLeq(s[i], s[j])}

---------------------------------------------------------------------------
(* Vector helpers, lines 7-30 *)

\* a[i] ?? 0  (i is a 0-based index)
At(a, i) == IF i + 1 \in DOMAIN a THEN a[i + 1] ELSE 0

RECURSIVE SumSq(_, _, _)
SumSq(a, b, i) ==
    IF i >= Len(a) THEN 0
    ELSE (At(a, i) - At(b, i)) * (At(a, i) - At(b, i)) + SumSq(a, b, i + 1)

\* the square of euclideanDistance(a, b)
euclideanDistanceSq(a, b) == SumSq(a, b, 0)

addVectors(a, b) == [i \in 1..Len(a) |-> a[i] + At(b, i - 1)]

\* v / scalar, on a vector of integers, in fixed point
divideVector(v, scalar) == [i \in 1..Len(v) |-> (v[i] * Scale) \div scalar]

zeroVector(d) == [i \in 1..d |-> 0]

\* [...point]: the copy of a point as a centroid, in fixed point
CopyOf(point) == [i \in 1..Len(point) |-> point[i] * Scale]

\* euclideanDistance(point, centroid) squared, in units of 1/Scale^2
dist2(point, centroid) == euclideanDistanceSq(CopyOf(point), centroid)

---------------------------------------------------------------------------
(* initializeCentroids, lines 33-88 *)

\* Math.floor(Math.random() * n)
RandomIndex(n) == 0..(n - 1)

RECURSIVE minDistTo(_, _, _, _)
\* lines 54-58: the minimum over the centroids chosen so far, from index c on
minDistTo(point, cs, c, minDist) ==
    IF c > Len(cs) THEN minDist
    ELSE LET dist == dist2(point, cs[c])
         IN  IF minDist = Infinity \/ dist < minDist
             THEN minDistTo(point, cs, c + 1, dist)
             ELSE minDistTo(point, cs, c + 1, minDist)

\* lines 49-61: distances[i] = minDist * minDist
distancesTo(pts, cs) == [i \in 1..Len(pts) |-> minDistTo(pts[i], cs, 1, Infinity)]

RECURSIVE SeqSum(_, _)
SeqSum(s, i) == IF i > Len(s) THEN 0 ELSE s[i] + SeqSum(s, i + 1)

\* totalDist
totalDistOf(distances) == SeqSum(distances, 1)

\* Math.random() * totalDist lies in [0, totalDist).  Every distance is a
\* multiple of Scale^2, so one value per half unit stands for every real
\* outcome of the scan of lines 65-75.
RandomTimes(totalDist) ==
    {0} \cup {(j * Scale * Scale) \div 2 :
                 j \in 0..(2 * (totalDist \div (Scale * Scale)) - 1)}

NotPicked == -1

RECURSIVE roulette(_, _, _)
\* lines 65-75: the 0-based index picked, or NotPicked when the scan ends
roulette(distances, random, i) ==
    IF i >= Len(distances) THEN NotPicked
    ELSE LET r == random - At(distances, i)
         IN  IF r <= 0 THEN i ELSE roulette(distances, r, i + 1)

\* The outcomes of the scan for one draw.  In doubles the subtractions
\* round, and the scan can end above 0 without a pick (the case lines 77-84
\* are written for); that can only happen when totalDist > 0.
rouletteOutcomes(distances) ==
    LET total == totalDistOf(distances)
    IN  {roulette(distances, random, 0) : random \in RandomTimes(total)}
          \cup (IF total > 0 THEN {NotPicked} ELSE {})

\* centroidsAfterTurn without the fallback of lines 77-84
centroidsWithoutFallback(pts, cs, picked) ==
    IF picked # NotPicked
    THEN {Append(cs, CopyOf(pts[picked + 1]))}
    ELSE {cs}

\* lines 68-84: the centroids after one turn of the loop, for the outcome
\* picked of the scan: the point picked is pushed, or a random point when
\* the scan picked none (centroids.length === c)
centroidsAfterTurn(pts, cs, picked) ==
    IF picked # NotPicked
    THEN {Append(cs, CopyOf(pts[picked + 1]))}
    ELSE {Append(cs, CopyOf(pts[idx + 1])) : idx \in RandomIndex(Len(pts))}

---------------------------------------------------------------------------
(* assignClusters, lines 91-108 *)

RECURSIVE nearestOneBased(_, _, _, _, _)
\* nearest returning the 1-based position of the centroid
nearestOneBased(point, cs, c, minDist, cluster) ==
    IF c >= Len(cs) THEN cluster
    ELSE LET dist == dist2(point, cs[c + 1])
         IN  IF minDist = Infinity \/ dist < minDist
             THEN nearestOneBased(point, cs, c + 1, dist, c + 1)
             ELSE nearestOneBased(point, cs, c + 1, minDist, cluster)

RECURSIVE nearestLastWins(_, _, _, _, _)
\* nearest replacing on dist <= minDist
nearestLastWins(point, cs, c, minDist, cluster) ==
    IF c >= Len(cs) THEN cluster
    ELSE LET dist == dist2(point, cs[c + 1])
         IN  IF minDist = Infinity \/ dist <= minDist
             THEN nearestLastWins(point, cs, c + 1, dist, c)
             ELSE nearestLastWins(point, cs, c + 1, minDist, cluster)

RECURSIVE nearest(_, _, _, _, _)
\* lines 96-104: the scan over the centroids from 0-based index c on
nearest(point, cs, c, minDist, cluster) ==
    IF c >= Len(cs) THEN cluster
    ELSE LET dist == dist2(point, cs[c + 1])
         IN  IF minDist = Infinity \/ dist < minDist
             THEN nearest(point, cs, c + 1, dist, c)
             ELSE nearest(point, cs, c + 1, minDist, cluster)

assignClusters(pts, cs) ==
    [i \in 1..Len(pts) |-> nearest(pts[i], cs, 0, Infinity, 0)]

---------------------------------------------------------------------------
(* computeCentroids, lines 111-142 *)

RECURSIVE accumulate(_, _, _, _)
\* lines 120-130: acc.sums and acc.counts after the points from index i on
accumulate(pts, asg, i, acc) ==
    IF i > Len(pts) THEN acc
    ELSE LET cluster == asg[i]
         IN  IF cluster + 1 \in DOMAIN acc.sums
             THEN accumulate(pts, asg, i + 1,
                    [sums   |-> [acc.sums EXCEPT
                                   ![cluster + 1] = addVectors(@, pts[i])],
                     counts |-> [acc.counts EXCEPT ![cluster + 1] = @ + 1]])
             ELSE accumulate(pts, asg, i + 1, acc)

sumsAndCounts(pts, asg, kk, d) ==
    accumulate(pts, asg, 1, [sums   |-> [c \in 1..kk |-> zeroVector(d)],
                             counts |-> [c \in 1..kk |-> 0]])

\* the cluster ids that received no point
emptyClusters(pts, asg, kk, d) ==
    {c \in 0..(kk - 1) : sumsAndCounts(pts, asg, kk, d).counts[c + 1] = 0}

\* computeCentroids without the branch of lines 134-139: an empty cluster
\* keeps its sum, the zero vector
computeCentroidsNoReseed(pts, asg, kk, d, randomIdx) ==
    LET acc == sumsAndCounts(pts, asg, kk, d)
    IN  [c1 \in 1..kk |->
           IF acc.counts[c1] = 0
           THEN acc.sums[c1]
           ELSE divideVector(acc.sums[c1], acc.counts[c1])]

\* lines 132-141; randomIdx[c] is the draw of line 136 for the empty cluster c
computeCentroids(pts, asg, kk, d, randomIdx) ==
    LET acc == sumsAndCounts(pts, asg, kk, d)
    IN  [c1 \in 1..kk |->
           IF acc.counts[c1] = 0
           THEN CopyOf(pts[randomIdx[c1 - 1] + 1])
           ELSE divideVector(acc.sums[c1], acc.counts[c1])]

\* assignmentsEqual without the loop of lines 147-149
assignmentsEqualLengthOnly(a, b) == Len(a) = Len(b)

\* lines 145-151
assignmentsEqual(a, b) ==
    /\ Len(a) = Len(b)
    /\ \A i \in 1..Len(a) : a[i] = b[i]

---------------------------------------------------------------------------
(* kmeans, lines 153-197 *)

ClusterResult(a, c, n) == [assignments |-> a, centroids |-> c, iterations |-> n]

\* entryCase with line 162 testing k > points.length
entryCaseStrict(pts, kk) ==
    IF Len(pts) = 0 THEN "empty"
    ELSE IF kk > Len(pts) THEN "singletons"
    ELSE "lloyd"

\* entryCase with the test of line 162 made before the test of line 158
entryCaseSingletonsFirst(pts, kk) ==
    IF kk >= Len(pts) THEN "singletons"
    ELSE IF Len(pts) = 0 THEN "empty"
    ELSE "lloyd"

\* line 158 and line 162: which return of kmeans, if any, the arguments take
entryCase(pts, kk) ==
    IF Len(pts) = 0 THEN "empty"
    ELSE IF kk >= Len(pts) THEN "singletons"
    ELSE "lloyd"

\* lines 158-176: the early returns and the locals
KmeansEntry ==
    /\ pc = "call"
    /\ IF entryCase(points, k) = "empty"
       THEN /\ result' = ClusterResult(<<>>, <<>>, 0)
            /\ pc' = "done"
            /\ dim' = dim
       ELSE IF entryCase(points, k) = "singletons"
       THEN /\ result' = ClusterResult([i \in 1..Len(points) |-> i - 1],
                                       [i \in 1..Len(points) |-> CopyOf(points[i])],
                                       1)
            /\ pc' = "done"
            /\ dim' = dim
       ELSE /\ dim' = Len(points[1])
            /\ pc' = "initFirst"
            /\ result' = result
    /\ UNCHANGED <<points, k, maxIterations, centroids, initC, assignments,
                   iterations, iter, newCentroids, rounds, previous>>
    /\ UNCHANGED skVars
    /\ UNCHANGED scanVars
    /\ UNCHANGED restVars

\* lines 34-42: the first centroid is a random point
InitFirstCentroid ==
    /\ pc = "initFirst"
    /\ \E firstIdx \in RandomIndex(Len(points)) :
          centroids' = <<CopyOf(points[firstIdx + 1])>>
    /\ initC' = 1
    /\ pc' = "initNext"
    /\ UNCHANGED <<points, k, maxIterations, dim, assignments, iterations, iter,
                   newCentroids, result, rounds, previous>>
    /\ UNCHANGED skVars
    /\ UNCHANGED scanVars
    /\ UNCHANGED restVars

\* lines 45-85: one turn of the loop, c < k
InitNextCentroid ==
    /\ pc = "initNext"
    /\ initC < k
    /\ \E picked \in rouletteOutcomes(distancesTo(points, centroids)) :
          centroids' \in centroidsAfterTurn(points, centroids, picked)
    /\ initC' = initC + 1
    /\ UNCHANGED <<points, k, maxIterations, pc, dim, assignments, iterations,
                   iter, newCentroids, result, rounds, previous>>
    /\ UNCHANGED skVars
    /\ UNCHANGED scanVars
    /\ UNCHANGED restVars

\* lines 178-179, once initializeCentroids has returned
InitialAssign ==
    /\ pc = "initNext"
    /\ ~(initC < k)
    /\ assignments' = assignClusters(points, centroids)
    /\ iterations' = 1
    /\ iter' = 0
    /\ previous' = <<>>
    /\ pc' = "loop"
    /\ UNCHANGED <<points, k, maxIterations, dim, centroids, initC,
                   newCentroids, result, rounds>>
    /\ UNCHANGED skVars
    /\ UNCHANGED scanVars
    /\ UNCHANGED restVars

\* line 181: the loop test; line 182 when it holds, line 196 when it fails
Loop ==
    /\ pc = "loop"
    /\ IF iter < maxIterations
       THEN /\ \E randomIdx \in [emptyClusters(points, assignments, k, dim)
                                    -> RandomIndex(Len(points))] :
                  newCentroids' =
                      computeCentroids(points, assignments, k, dim, randomIdx)
            /\ pc' = "reassign"
            /\ result' = result
       ELSE /\ result' = ClusterResult(assignments, centroids, iterations)
            /\ pc' = "done"
            /\ newCentroids' = newCentroids
    /\ UNCHANGED <<points, k, maxIterations, dim, centroids, initC, assignments,
                   iterations, iter, rounds, previous>>
    /\ UNCHANGED skVars
    /\ UNCHANGED scanVars
    /\ UNCHANGED restVars

\* Reassign without line 192: the centroids are not replaced
ReassignKeepingCentroids ==
    /\ pc = "reassign"
    /\ LET newAssignments == assignClusters(points, newCentroids)
       IN  /\ iterations' = iter + 1
           /\ rounds' = rounds + 1
           /\ previous' = assignments
           /\ IF assignmentsEqual(assignments, newAssignments)
              THEN /\ result' = ClusterResult(newAssignments, newCentroids, iter + 1)
                   /\ pc' = "done"
                   /\ UNCHANGED <<centroids, assignments, iter>>
              ELSE /\ centroids' = centroids
                   /\ assignments' = newAssignments
                   /\ iter' = iter + 1
                   /\ pc' = "loop"
                   /\ result' = result
    /\ UNCHANGED <<points, k, maxIterations, dim, initC, newCentroids>>
    /\ UNCHANGED skVars
    /\ UNCHANGED scanVars
    /\ UNCHANGED restVars

\* lines 183-193
Reassign ==
    /\ pc = "reassign"
    /\ LET newAssignments == assignClusters(points, newCentroids)
       IN  /\ iterations' = iter + 1
           /\ rounds' = rounds + 1
           /\ previous' = assignments
           /\ IF assignmentsEqual(assignments, newAssignments)
              THEN /\ result' = ClusterResult(newAssignments, newCentroids, iter + 1)
                   /\ pc' = "done"
                   /\ UNCHANGED <<centroids, assignments, iter>>
              ELSE /\ centroids' = newCentroids
                   /\ assignments' = newAssignments
                   /\ iter' = iter + 1
                   /\ pc' = "loop"
                   /\ result' = result
    /\ UNCHANGED <<points, k, maxIterations, dim, initC, newCentroids>>
    /\ UNCHANGED skVars
    /\ UNCHANGED scanVars
    /\ UNCHANGED restVars

NextKmeans ==
    \/ KmeansEntry
    \/ InitFirstCentroid
    \/ InitNextCentroid
    \/ InitialAssign
    \/ Loop
    \/ Reassign

\* the locals of kmeans before a call
KmeansFresh ==
    /\ dim = 0
    /\ centroids = <<>>
    /\ initC = 0
    /\ assignments = <<>>
    /\ iterations = 0
    /\ iter = 0
    /\ newCentroids = <<>>
    /\ result = NoResult
    /\ rounds = 0
    /\ previous = <<>>

\* the elbow scan is not run alone
ScanIdle ==
    /\ scanIn = <<>>
    /\ scanOut = <<>>

\* suggestK is not running
SuggestKIdle ==
    /\ skpc = "none"
    /\ maxK = 0
    /\ maxClusters = 0
    /\ skK = 0
    /\ inertias = <<>>
    /\ suggested = <<>>
    /\ kmeansCalls = <<>>

\* cosineSimilarity is not run alone
CosineIdle ==
    /\ cosA = <<>>
    /\ cosB = <<>>
    /\ cosOut = <<>>

\* no search is running
SearchIdle ==
    /\ embeddings = <<>>
    /\ limit = 0
    /\ hpc = "idle"
    /\ queryEmbedding = <<>>
    /\ vectorResults = <<>>
    /\ ftsResults = <<>>
    /\ ftsReturned = <<>>
    /\ ftsFailed = FALSE
    /\ merged = <<>>

\* getClusterLabels is not run alone
LabelsIdle ==
    /\ lblPoints = <<>>
    /\ lblTexts = <<>>
    /\ lblAssignments = <<>>
    /\ lblK = 0
    /\ lblCentroids = <<>>
    /\ lblOut = <<>>

\* runClustering is not running, on an empty store
StoreIdle ==
    /\ bookmarks = <<>>
    /\ topics = <<>>
    /\ bookmarkTopics = {}
    /\ rcK = <<>>
    /\ rcpc = "idle"
    /\ numClusters = 0
    /\ clustered = <<>>

\* the embedder, generateEmbeddings and the Analyze screen are not running,
\* but for the one named
AppIdle(running) ==
    /\ IF running = "embedder" THEN TRUE
       ELSE /\ extractor = 0
            /\ pipelines = 0
            /\ embedCalls = <<>>
    /\ IF running = "generate" THEN TRUE
       ELSE /\ genStore = <<>>
            /\ gpc = "idle"
            /\ todo = <<>>
            /\ processed = 0
            /\ embedCounts = <<>>
            /\ outcomes = <<>>
    /\ IF running = "analyze" THEN TRUE
       ELSE /\ state = "idle"
            /\ screen = "none"
            /\ ops = <<>>
            /\ pressed = 0

RestIdle ==
    /\ CosineIdle
    /\ SearchIdle
    /\ LabelsIdle
    /\ StoreIdle
    /\ AppIdle("none")

\* a call kmeans(points, k, maxIterations)
InitKmeans ==
    /\ points \in PointLists(MaxAnyOrder) \cup SortedPointLists(MaxN)
    /\ k \in 0..(Len(points) + 1)
    /\ maxIterations \in (0..MaxIter) \cup {DefaultMaxIterations}
    /\ pc = "call"
    /\ KmeansFresh
    /\ SuggestKIdle
    /\ ScanIdle
    /\ RestIdle

SpecKmeans == InitKmeans /\ [][NextKmeans]_vars

---------------------------------------------------------------------------
(* suggestK, lines 200-241 *)

RECURSIVE inertiaFrom(_, _, _)
\* lines 208-220: the sum from point index i on, in units of 1/Scale^2
inertiaFrom(pts, res, i) ==
    IF i > Len(pts) THEN 0
    ELSE IF i \notin DOMAIN res.assignments
              \/ res.assignments[i] + 1 \notin DOMAIN res.centroids
         THEN inertiaFrom(pts, res, i + 1)
         ELSE dist2(pts[i], res.centroids[res.assignments[i] + 1])
                + inertiaFrom(pts, res, i + 1)

\* inertiaOf measuring every point against the first centroid
inertiaToFirstCentroid(pts, res) ==
    SeqSum([i \in 1..Len(pts) |-> dist2(pts[i], res.centroids[1])], 1)

inertiaOf(pts, res) == inertiaFrom(pts, res, 1)

\* line 233, at the 0-based index i of inertias
secondDerivativeAt(ins, i) == At(ins, i - 1) - 2 * At(ins, i) + At(ins, i + 1)

RECURSIVE elbowLastWins(_, _, _, _)
\* elbow replacing on secondDerivative >= maxSecondDerivative
elbowLastWins(ins, i, bestK, maxSecondDerivative) ==
    IF ~(i < Len(ins) - 1) THEN bestK
    ELSE IF secondDerivativeAt(ins, i) >= maxSecondDerivative
         THEN elbowLastWins(ins, i + 1, i + 1, secondDerivativeAt(ins, i))
         ELSE elbowLastWins(ins, i + 1, bestK, maxSecondDerivative)

RECURSIVE elbow(_, _, _, _)
\* lines 229-238: the scan from the 0-based index i on
elbow(ins, i, bestK, maxSecondDerivative) ==
    IF ~(i < Len(ins) - 1) THEN bestK
    ELSE IF secondDerivativeAt(ins, i) > maxSecondDerivative
         THEN elbow(ins, i + 1, i + 1, secondDerivativeAt(ins, i))
         ELSE elbow(ins, i + 1, bestK, maxSecondDerivative)

\* isSmallInput testing points.length < 3
isSmallInputStrict(pts) == Len(pts) < SmallInputLimit

\* line 201: the test of the early return
isSmallInput(pts) == Len(pts) <= SmallInputLimit

\* lines 201-204
SuggestKEntry ==
    /\ skpc = "entry"
    /\ IF isSmallInput(points)
       THEN /\ suggested' = <<Max(1, Len(points))>>
            /\ skpc' = "done"
            /\ UNCHANGED <<maxClusters, skK>>
       ELSE /\ maxClusters' = Min(maxK, Len(points) \div 2)
            /\ skK' = 1
            /\ skpc' = "loop"
            /\ suggested' = suggested
    /\ UNCHANGED <<maxK, inertias, kmeansCalls>>
    /\ UNCHANGED kmVars
    /\ UNCHANGED scanVars
    /\ UNCHANGED restVars

\* lines 206-207: the call kmeans(points, k, 50)
SuggestKCall ==
    /\ skpc = "loop"
    /\ skK <= maxClusters
    /\ k' = skK
    /\ maxIterations' = SuggestKMaxIterations
    /\ pc' = "call"
    /\ dim' = 0
    /\ centroids' = <<>>
    /\ initC' = 0
    /\ assignments' = <<>>
    /\ iterations' = 0
    /\ iter' = 0
    /\ newCentroids' = <<>>
    /\ result' = NoResult
    /\ rounds' = 0
    /\ previous' = <<>>
    /\ kmeansCalls' = Append(kmeansCalls, <<skK, SuggestKMaxIterations>>)
    /\ skpc' = "wait"
    /\ UNCHANGED <<points, maxK, maxClusters, skK, inertias, suggested>>
    /\ UNCHANGED scanVars
    /\ UNCHANGED restVars

\* lines 208-222, once kmeans has returned
SuggestKInertia ==
    /\ skpc = "wait"
    /\ pc = "done"
    /\ inertias' = Append(inertias, inertiaOf(points, result))
    /\ skK' = skK + 1
    /\ skpc' = "loop"
    /\ pc' = "idle"
    /\ UNCHANGED <<points, k, maxIterations, dim, centroids, initC, assignments,
                   iterations, iter, newCentroids, result, rounds, previous>>
    /\ UNCHANGED <<maxK, maxClusters, suggested, kmeansCalls>>
    /\ UNCHANGED scanVars
    /\ UNCHANGED restVars

\* lines 225-240
SuggestKElbow ==
    /\ skpc = "loop"
    /\ ~(skK <= maxClusters)
    /\ suggested' = <<elbow(inertias, 1, DefaultBestK, 0)>>
    /\ skpc' = "done"
    /\ UNCHANGED <<maxK, maxClusters, skK, inertias, kmeansCalls>>
    /\ UNCHANGED kmVars
    /\ UNCHANGED scanVars
    /\ UNCHANGED restVars

NextSuggestK ==
    \/ SuggestKEntry
    \/ SuggestKCall
    \/ SuggestKInertia
    \/ SuggestKElbow
    \/ KmeansEntry
    \/ InitFirstCentroid
    \/ InitNextCentroid
    \/ InitialAssign
    \/ Loop
    \/ Reassign

\* a call suggestK(points, maxK)
InitSuggestK ==
    /\ points \in SortedPointLists(MaxNS)
    /\ maxK \in 1..MaxMaxK
    /\ skpc = "entry"
    /\ maxClusters = 0
    /\ skK = 0
    /\ inertias = <<>>
    /\ suggested = <<>>
    /\ kmeansCalls = <<>>
    /\ k = 0
    /\ maxIterations = 0
    /\ pc = "idle"
    /\ KmeansFresh
    /\ ScanIdle
    /\ RestIdle

SpecSuggestK == InitSuggestK /\ [][NextSuggestK]_vars

---------------------------------------------------------------------------
(* The elbow scan of suggestK, lines 225-240, as a function of the inertias *)

\* the inertia sequences of at most n entries, each in 0..m
InertiaLists(n, m) == UNION {[1..l -> 0..m] : l \in 0..n}

\* lines 225-240 on the inertias scanIn
ElbowScan ==
    /\ scanOut = <<>>
    /\ scanOut' = <<elbow(scanIn, 1, DefaultBestK, 0)>>
    /\ UNCHANGED scanIn
    /\ UNCHANGED kmVars
    /\ UNCHANGED skVars
    /\ UNCHANGED restVars

NextElbow == ElbowScan

InitElbow ==
    /\ scanIn \in InertiaLists(MaxInertias, MaxInertia)
    /\ scanOut = <<>>
    /\ points = <<>>
    /\ k = 0
    /\ maxIterations = 0
    /\ pc = "idle"
    /\ KmeansFresh
    /\ SuggestKIdle
    /\ RestIdle

SpecElbow == InitElbow /\ [][NextElbow]_vars

---------------------------------------------------------------------------
(* cosineSimilarity, src/src/analysis/embeddings.ts lines 41-62 *)

\* Scores.  The source computes in doubles.  The model keeps a score in
\* fixed point, as ScoreScale times its value, and draws vectors whose
\* magnitudes are integers, so that every square root and every quotient
\* below is exact.
ScoreScale == 1000

\* Math.sqrt, on a perfect square
Sqrt(n) == CHOOSE r \in 0..n : r * r = n

\* lines 50-56: the sum of a[j] * b[j] for i <= j < a.length
RECURSIVE dotFrom(_, _, _)
dotFrom(a, b, i) ==
    IF i >= Len(a) THEN 0
    ELSE At(a, i) * At(b, i) + dotFrom(a, b, i + 1)

\* the outcome of a call: an Error thrown, or a value returned
Thrown == [threw |-> TRUE, value |-> 0]
Returns(v) == [threw |-> FALSE, value |-> v]

\* lines 46-61 dividing by normA in place of the magnitude
cosineByNormA(a, b) ==
    LET dotProduct == dotFrom(a, b, 0)
        normA == dotFrom(a, a, 0)
    IN  IF normA = 0 THEN Returns(0)
        ELSE Returns((dotProduct * ScoreScale) \div normA)

\* lines 46-61
cosineOfSameLength(a, b) ==
    LET dotProduct == dotFrom(a, b, 0)
        normA == dotFrom(a, a, 0)
        normB == dotFrom(b, b, 0)
        magnitude == Sqrt(normA) * Sqrt(normB)
    IN  IF magnitude = 0 THEN Returns(0)
        ELSE Returns((dotProduct * ScoreScale) \div magnitude)

\* cosineSimilarity returning 0 in place of the throw of lines 42-44
cosineSimilarityLenient(a, b) ==
    IF Len(a) # Len(b) THEN Returns(0) ELSE cosineOfSameLength(a, b)

\* lines 41-62
cosineSimilarity(a, b) ==
    IF Len(a) # Len(b) THEN Thrown ELSE cosineOfSameLength(a, b)

\* vectors of dimension 0, 2 and 4 with magnitude 0, 5 or 10
CosineVectors ==
    {<<>>, <<0, 0>>, <<3, 4>>, <<6, 8>>, <<10, 0>>, <<-6, 8>>,
     <<0, 0, 0, 0>>, <<10, 0, 0, 0>>, <<9, 3, 3, 1>>, <<5, 5, 5, 5>>,
     <<-5, 5, 5, 5>>}

\* a call cosineSimilarity(cosA, cosB)
CosineCall ==
    /\ cosOut = <<>>
    /\ cosOut' = <<cosineSimilarity(cosA, cosB)>>
    /\ UNCHANGED <<cosA, cosB>>
    /\ UNCHANGED kmVars
    /\ UNCHANGED skVars
    /\ UNCHANGED scanVars
    /\ UNCHANGED <<embVars, genVars, uiVars>>
    /\ UNCHANGED searchVars
    /\ UNCHANGED lblVars
    /\ UNCHANGED rcVars

NextCosine == CosineCall

\* the cluster engine and the K selector are not running
ClusterIdle ==
    /\ points = <<>>
    /\ k = 0
    /\ maxIterations = 0
    /\ pc = "idle"
    /\ KmeansFresh
    /\ SuggestKIdle
    /\ ScanIdle

InitCosine ==
    /\ cosA \in CosineVectors
    /\ cosB \in CosineVectors
    /\ cosOut = <<>>
    /\ ClusterIdle
    /\ AppIdle("none")
    /\ SearchIdle
    /\ LabelsIdle
    /\ StoreIdle

SpecCosine == InitCosine /\ [][NextCosine]_vars

---------------------------------------------------------------------------
(* The search module, src/unnamed/part_000 *)

\* { bookmark, score }: the bookmark is kept as its id
SearchResult(id, score) == [id |-> id, score |-> score]

\* the embeddings of the stored bookmarks and of the queries: dimension 4,
\* magnitude 10
StoredVectors == {<<9, 3, 3, 1>>, <<5, 5, 5, 5>>, <<-5, 5, 5, 5>>}
QueryVectors == {<<10, 0, 0, 0>>, <<0, 0, 0, 10>>}

\* the values bm25 gives a matching row, in units of 1/ScoreScale
RawScores == {-300, 200}

\* array.slice(0, lim), for lim >= 0
slice(s, lim) == SubSeq(s, 1, Min(lim, Len(s)))

\* s, sorted by descending score, after x has been put behind every entry
\* that does not sort after it
RECURSIVE insertByScore(_, _)
insertByScore(s, x) ==
    IF s = <<>> THEN <<x>>
    ELSE IF Head(s).score >= x.score
         THEN <<Head(s)>> \o insertByScore(Tail(s), x)
         ELSE <<x>> \o s

RECURSIVE sortFrom(_, _, _)
sortFrom(s, i, acc) ==
    IF i > Len(s) THEN acc ELSE sortFrom(s, i + 1, insertByScore(acc, s[i]))

\* sortByScore leaving the array as it is
unsorted(s) == s

\* array.sort((a, b) => b.score - a.score): descending and stable
sortByScore(s) == sortFrom(s, 1, <<>>)

\* lines 31-53: one entry per row with an embedding, from row i on, in the
\* order of the ids
RECURSIVE scoredFrom(_, _, _)
scoredFrom(q, embs, i) ==
    IF i > Len(embs) THEN <<>>
    ELSE IF embs[i] = <<>> THEN scoredFrom(q, embs, i + 1)
    ELSE <<SearchResult(i, cosineSimilarity(q, embs[i][1]).value)>>
         \o scoredFrom(q, embs, i + 1)

\* lines 28-58, on the query embedding q
vectorSearch(q, embs, lim) == slice(sortByScore(scoredFrom(q, embs, 1)), lim)

\* s, sorted by ascending score, after x has been put behind every entry
\* that does not sort after it
RECURSIVE insertByRank(_, _)
insertByRank(s, x) ==
    IF s = <<>> THEN <<x>>
    ELSE IF Head(s).score <= x.score
         THEN <<Head(s)>> \o insertByRank(Tail(s), x)
         ELSE <<x>> \o s

\* lines 76-82: the rows of the ids that match, ORDER BY score, from id i on
RECURSIVE rowsFrom(_, _, _, _)
rowsFrom(ids, raw, i, acc) ==
    IF i > MaxDocs THEN acc
    ELSE IF i \in ids
         THEN rowsFrom(ids, raw, i + 1, insertByRank(acc, SearchResult(i, raw[i])))
         ELSE rowsFrom(ids, raw, i + 1, acc)

\* Math.abs
abs(x) == IF x < 0 THEN -x ELSE x

\* lines 75-101: the ids match the query and bm25 gives the id i the value
\* raw[i]; no id matches when lines 71-73 return
ftsSearch(ids, raw, lim) ==
    LET rows == slice(rowsFrom(ids, raw, 1, <<>>), lim)
    IN  [i \in 1..Len(rows) |-> SearchResult(rows[i].id, abs(rows[i].score))]

\* line 122: ftsResults.find(...) finds an entry
ftsMatch(fts, id) == \E i \in 1..Len(fts) : fts[i].id = id

\* line 125 multiplying by 1
unboosted(score) == score

\* line 125: result.score * 1.2
boosted(score) == (score * 12) \div 10

\* line 135: result.score * 0.5
downWeighted(score) == (score * 5) \div 10

\* line 131 taking every id for unseen
unseenAlways(seen, id) == TRUE

\* line 131: !seen.has(id)
unseen(seen, id) == id \notin seen

\* lines 119-127: the entries pushed for the vector results from index i on
RECURSIVE vectorPass(_, _, _)
vectorPass(vs, fts, i) ==
    IF i > Len(vs) THEN <<>>
    ELSE <<SearchResult(vs[i].id, IF ftsMatch(fts, vs[i].id)
                                  THEN boosted(vs[i].score)
                                  ELSE vs[i].score)>>
         \o vectorPass(vs, fts, i + 1)

\* lines 130-138: merged after the lexical results from index i on
RECURSIVE ftsPass(_, _, _, _)
ftsPass(fts, i, seen, acc) ==
    IF i > Len(fts) THEN acc
    ELSE IF unseen(seen, fts[i].id)
         THEN ftsPass(fts, i + 1, seen \cup {fts[i].id},
                      Append(acc, SearchResult(fts[i].id, downWeighted(fts[i].score))))
         ELSE ftsPass(fts, i + 1, seen, acc)

\* lines 114-142
mergeResults(vs, fts, lim) ==
    LET seen == {vs[i].id : i \in 1..Len(vs)}
    IN  slice(sortByScore(ftsPass(fts, 1, seen, vectorPass(vs, fts, 1))), lim)

\* the promise of line 111 rejecting when ftsSearch fails
uncaught(failed, returned) == [rejected |-> failed, value |-> returned]

\* line 111: .catch(() => []) on the promise of ftsSearch
caught(failed, returned) ==
    [rejected |-> FALSE, value |-> IF failed THEN <<>> ELSE returned]

\* line 110: vectorSearch(query, limit); embed(query) gives any query vector
VectorSearch ==
    /\ hpc = "vector"
    /\ \E q \in QueryVectors :
         /\ queryEmbedding' = <<q>>
         /\ vectorResults' = vectorSearch(q, embeddings, limit)
    /\ hpc' = "fts"
    /\ UNCHANGED <<embeddings, limit, ftsResults, ftsReturned, ftsFailed, merged>>
    /\ UNCHANGED kmVars
    /\ UNCHANGED skVars
    /\ UNCHANGED scanVars
    /\ UNCHANGED <<embVars, genVars, uiVars>>
    /\ UNCHANGED cosVars
    /\ UNCHANGED lblVars
    /\ UNCHANGED rcVars

\* line 111: ftsSearch(query, limit).catch(() => []); the lexical index
\* matches any set of bookmarks with any scores, or the call fails
FtsSearch ==
    /\ hpc = "fts"
    /\ \/ \E ids \in SUBSET (1..MaxDocs) : \E raw \in [ids -> RawScores] :
            /\ ftsReturned' = ftsSearch(ids, raw, limit)
            /\ ftsFailed' = FALSE
       \/ /\ ftsReturned' = <<>>
          /\ ftsFailed' = TRUE
    /\ LET settled == caught(ftsFailed', ftsReturned')
       IN  /\ ftsResults' = settled.value
           /\ hpc' = IF settled.rejected THEN "failed" ELSE "merge"
    /\ UNCHANGED <<embeddings, limit, queryEmbedding, vectorResults, merged>>
    /\ UNCHANGED kmVars
    /\ UNCHANGED skVars
    /\ UNCHANGED scanVars
    /\ UNCHANGED <<embVars, genVars, uiVars>>
    /\ UNCHANGED cosVars
    /\ UNCHANGED lblVars
    /\ UNCHANGED rcVars

\* lines 114-142
HybridMerge ==
    /\ hpc = "merge"
    /\ merged' = <<mergeResults(vectorResults, ftsResults, limit)>>
    /\ hpc' = "done"
    /\ UNCHANGED <<embeddings, limit, queryEmbedding, vectorResults, ftsResults,
                   ftsReturned, ftsFailed>>
    /\ UNCHANGED kmVars
    /\ UNCHANGED skVars
    /\ UNCHANGED scanVars
    /\ UNCHANGED <<embVars, genVars, uiVars>>
    /\ UNCHANGED cosVars
    /\ UNCHANGED lblVars
    /\ UNCHANGED rcVars

NextSearch ==
    \/ VectorSearch
    \/ FtsSearch
    \/ HybridMerge

\* the embedding columns of the store: NULL or a vector
EmbeddingColumns == {<<>>} \cup {<<v>> : v \in StoredVectors}

\* a call hybridSearch(query, limit)
InitSearch ==
    /\ embeddings \in [1..MaxDocs -> EmbeddingColumns]
    /\ limit \in 0..MaxLimit
    /\ hpc = "vector"
    /\ queryEmbedding = <<>>
    /\ vectorResults = <<>>
    /\ ftsResults = <<>>
    /\ ftsReturned = <<>>
    /\ ftsFailed = FALSE
    /\ merged = <<>>
    /\ ClusterIdle
    /\ AppIdle("none")
    /\ CosineIdle
    /\ LabelsIdle
    /\ StoreIdle

SpecSearch == InitSearch /\ [][NextSearch]_vars

---------------------------------------------------------------------------
(* getClusterLabels, src/src/analysis/cluster.ts lines 286-371 *)

\* A string is the sequence of its characters.

Whitespace == {" ", "\n"}

\* a URL, 12 characters
Url == <<"h", "t", "t", "p", "s", ":", "/", "/", "t", ".", "c", "o">>

\* the texts of the bookmarks: the empty string; a URL between whitespace;
\* words, a URL and runs of whitespace; 61 characters without whitespace
EmptyText == <<>>
BlankText == <<" ">> \o Url \o <<"\n">>
PlainText == <<"a", " ", "\n">> \o Url \o <<" ", "b">>
LongText == [i \in 1..61 |-> "x"]
Texts == {EmptyText, BlankText, PlainText, LongText}

\* `Empty cluster`
EmptyClusterLabel ==
    <<"E", "m", "p", "t", "y", " ", "c", "l", "u", "s", "t", "e", "r">>

\* the decimal digits of n
RECURSIVE Decimal(_)
Decimal(n) ==
    LET digit(d) == <<"0", "1", "2", "3", "4", "5", "6", "7", "8", "9">>[d + 1]
    IN  IF n < 10 THEN <<digit(n)>>
        ELSE Decimal(n \div 10) \o <<digit(n % 10)>>

\* `Cluster ${n}`
NumberedLabel(n) == <<"C", "l", "u", "s", "t", "e", "r", " ">> \o Decimal(n)

\* the characters of t from position i on are those of w
HasAt(t, i, w) == i + Len(w) - 1 <= Len(t) /\ SubSeq(t, i, i + Len(w) - 1) = w

\* /https?:\/\/\S+/ matches at position i of t: the position of the first
\* character after the scheme, 0 when there is no match
urlBodyAt(t, i) ==
    LET body == IF HasAt(t, i, <<"h", "t", "t", "p", "s", ":", "/", "/">>) THEN i + 8
                ELSE IF HasAt(t, i, <<"h", "t", "t", "p", ":", "/", "/">>) THEN i + 7
                ELSE 0
    IN  IF body # 0 /\ body <= Len(t) /\ t[body] \notin Whitespace THEN body ELSE 0

\* the first position from i on whose character is (space = TRUE) not
\* whitespace, or (space = FALSE) whitespace; Len(t) + 1 when there is none
RECURSIVE skip(_, _, _)
skip(t, i, space) ==
    IF i > Len(t) \/ ((t[i] \in Whitespace) # space) THEN i
    ELSE skip(t, i + 1, space)

\* line 358: .replace(/https?:\/\/\S+/g, ""), from position i on
RECURSIVE removeUrls(_, _)
removeUrls(t, i) ==
    IF i > Len(t) THEN <<>>
    ELSE IF urlBodyAt(t, i) # 0 THEN removeUrls(t, skip(t, urlBodyAt(t, i), FALSE))
    ELSE <<t[i]>> \o removeUrls(t, i + 1)

\* line 359: .replace(/\s+/g, " "), from position i on
RECURSIVE normalizeWhitespace(_, _)
normalizeWhitespace(t, i) ==
    IF i > Len(t) THEN <<>>
    ELSE IF t[i] \in Whitespace
         THEN <<" ">> \o normalizeWhitespace(t, skip(t, i, TRUE))
         ELSE <<t[i]>> \o normalizeWhitespace(t, i + 1)

\* the last position up to i whose character is not whitespace, 0 when none
RECURSIVE lastNonSpace(_, _)
lastNonSpace(t, i) ==
    IF i = 0 \/ t[i] \notin Whitespace THEN i ELSE lastNonSpace(t, i - 1)

\* line 360: .trim()
trim(t) == SubSeq(t, skip(t, 1, TRUE), lastNonSpace(t, Len(t)))

\* lines 357-360
cleaned(t) == trim(normalizeWhitespace(removeUrls(t, 1), 1))

\* lines 361-363
snippetOf(c) ==
    IF Len(c) > 60 THEN SubSeq(c, 1, 57) \o <<".", ".", ".">> ELSE c

\* line 364 pushing the snippet as it is
snippetOnly(snip, n) == snip

\* line 364: snippet || `Cluster ${c + 1}`
snippetOrNumbered(snip, n) == IF snip = <<>> THEN NumberedLabel(n) ELSE snip

\* string | null: <<>> is null, <<t>> is the string t
Falsy(text) == text = <<>> \/ text[1] = <<>>

\* texts[i] ?? null, i a 0-based index
textAt(txts, i) == IF i + 1 \in DOMAIN txts THEN <<txts[i + 1]>> ELSE <<>>

\* lines 296-312: the scan from the 0-based index i on
RECURSIVE centralFrom(_, _, _, _, _, _, _, _)
centralFrom(pts, txts, asg, centroid, clusterId, i, bestDist, bestText) ==
    IF i >= Len(pts) THEN bestText
    ELSE IF At(asg, i) # clusterId \/ i + 1 \notin DOMAIN asg
    THEN centralFrom(pts, txts, asg, centroid, clusterId, i + 1, bestDist, bestText)
    ELSE LET dist == dist2(pts[i + 1], centroid)
         IN  IF bestDist = Infinity \/ dist < bestDist
             THEN centralFrom(pts, txts, asg, centroid, clusterId, i + 1,
                              dist, textAt(txts, i))
             ELSE centralFrom(pts, txts, asg, centroid, clusterId, i + 1,
                              bestDist, bestText)

\* findCentralText returning the text of the first point of the cluster
firstTextOfCluster(pts, txts, asg, centroid, clusterId) ==
    LET indices == {i \in 0..(Len(asg) - 1) : asg[i + 1] = clusterId}
    IN  IF indices = {} THEN <<>>
        ELSE textAt(txts, CHOOSE i \in indices : \A j \in indices : i <= j)

\* lines 286-315
findCentralText(pts, txts, asg, centroid, clusterId) ==
    centralFrom(pts, txts, asg, centroid, clusterId, 0, Infinity, <<>>)

\* lines 328-330: the 0-based indices of the entries of asg equal to c
clusterIndices(asg, c) == {i \in 0..(Len(asg) - 1) : asg[i + 1] = c}

\* lines 328-367: the label pushed for the cluster c; cents is <<centroids>>,
\* or <<>> when the argument is omitted
labelOf(pts, txts, asg, c, cents) ==
    LET indices == clusterIndices(asg, c)
        first == CHOOSE i \in indices : \A j \in indices : i <= j
        central == IF cents # <<>> /\ c + 1 \in DOMAIN cents[1]
                   THEN findCentralText(pts, txts, asg, cents[1][c + 1], c)
                   ELSE <<>>
        representativeText == IF Falsy(central) THEN textAt(txts, first)
                              ELSE central
    IN  IF indices = {} THEN EmptyClusterLabel
        ELSE IF ~Falsy(representativeText)
             THEN snippetOrNumbered(snippetOf(cleaned(representativeText[1])), c + 1)
             ELSE NumberedLabel(c + 1)

\* lines 318-371
getClusterLabels(pts, txts, asg, kk, cents) ==
    [c \in 1..kk |-> labelOf(pts, txts, asg, c - 1, cents)]

\* a call getClusterLabels(lblPoints, lblTexts, lblAssignments, lblK, centroids)
LabelClusters ==
    /\ lblOut = <<>>
    /\ lblOut' = <<getClusterLabels(lblPoints, lblTexts, lblAssignments, lblK,
                                    lblCentroids)>>
    /\ UNCHANGED <<lblPoints, lblTexts, lblAssignments, lblK, lblCentroids>>
    /\ UNCHANGED kmVars
    /\ UNCHANGED skVars
    /\ UNCHANGED scanVars
    /\ UNCHANGED <<embVars, genVars, uiVars>>
    /\ UNCHANGED cosVars
    /\ UNCHANGED searchVars
    /\ UNCHANGED rcVars

NextLabels == LabelClusters

\* the points of a call taken alone
LabelPoints == {<<0, 0>>, <<2, 0>>}

\* a call of getClusterLabels: one text per point, or the last one missing;
\* every assignment a cluster id below k; the centroids omitted, or every
\* centroid at the origin
InitLabels ==
    /\ lblPoints \in UNION {[1..n -> LabelPoints] : n \in 0..MaxLabelDocs}
    /\ lblTexts \in UNION {[1..n -> Texts] :
                             n \in {Len(lblPoints), Max(Len(lblPoints) - 1, 0)}}
    /\ lblK \in 0..MaxLabelK
    /\ lblAssignments \in [1..Len(lblPoints) -> 0..Max(lblK - 1, 0)]
    /\ lblCentroids \in {<<>>, <<[c \in 1..lblK |-> <<0, 0>>]>>}
    /\ lblOut = <<>>
    /\ ClusterIdle
    /\ AppIdle("none")
    /\ CosineIdle
    /\ SearchIdle
    /\ StoreIdle

SpecLabels == InitLabels /\ [][NextLabels]_vars

---------------------------------------------------------------------------
(* runClustering, src/src/analysis/index.ts lines 120-183, and the tables   *)
(* bookmarks, topics and bookmark_topics of src/src/db/schema.sql           *)

\* a row of bookmarks; embedding and cluster_id are <<>> when NULL
Bookmark(embedding, content, cluster_id) ==
    [embedding |-> embedding, content |-> content, cluster_id |-> cluster_id]

\* a row of topics.  description is the n of `${n} bookmarks`.  History:
\* run is 1 for a row this call inserted and 0 for a row it found; cluster is
\* the cluster id the row was inserted for.
Topic(id, name, description, run, cluster) ==
    [id |-> id, name |-> name, description |-> description, run |-> run,
     cluster |-> cluster]

\* a row of bookmark_topics; confidence in units of 1/ScoreScale.  History:
\* run as for topics.
Link(bookmark_id, topic_id, confidence, run) ==
    [bookmark_id |-> bookmark_id, topic_id |-> topic_id,
     confidence |-> confidence, run |-> run]

\* the id of a row inserted into rows (INTEGER PRIMARY KEY): one more than
\* the largest id
RECURSIVE nextId(_)
nextId(rows) ==
    IF rows = <<>> THEN 1 ELSE Max(rows[Len(rows)].id + 1, nextId(SubSeq(rows, 1, Len(rows) - 1)))

\* getEmbeddedBookmarks, lines 87-117: the ids of the rows with an embedding
embeddedIds(bms) ==
    SelectSeq([i \in 1..Len(bms) |-> i], LAMBDA i : bms[i].embedding # <<>>)

\* line 169 taking the position in data for the id
positionAsId(data, i) == i

\* line 169: item.bookmark.id, item = data[i], i a 0-based index
bookmarkIdAt(data, i) == data[i + 1]

\* lines 148-180: the tables after the turns of the loop from c on
RECURSIVE storeClusters(_, _, _, _, _, _)
storeClusters(data, asg, lbls, n, c, tables) ==
    IF c >= n THEN tables
    ELSE LET members == {i \in 0..(Len(data) - 1) : i + 1 \in DOMAIN asg /\ asg[i + 1] = c}
             clusterSize == Cardinality({i \in 1..Len(asg) : asg[i] = c})
             label == IF c + 1 \in DOMAIN lbls THEN lbls[c + 1] ELSE NumberedLabel(c + 1)
             topicId == nextId(tables.topics)
             ids == {bookmarkIdAt(data, i) : i \in members}
         IN  IF clusterSize = 0 \/ topicId = 0
             THEN storeClusters(data, asg, lbls, n, c + 1, tables)
             ELSE storeClusters(data, asg, lbls, n, c + 1,
                    [topics |-> Append(tables.topics,
                                       Topic(topicId, label, clusterSize, 1, c)),
                     links |-> tables.links
                               \cup {Link(id, topicId, ScoreScale, 1) : id \in ids},
                     bookmarks |-> [b \in DOMAIN tables.bookmarks |->
                                      IF b \in ids
                                      THEN [tables.bookmarks[b] EXCEPT !.cluster_id = <<c>>]
                                      ELSE tables.bookmarks[b]]])

\* a call kmeans(points, kk) with the default maxIterations
callKmeans(kk) ==
    /\ k' = kk
    /\ maxIterations' = DefaultMaxIterations
    /\ pc' = "call"
    /\ dim' = 0
    /\ centroids' = <<>>
    /\ initC' = 0
    /\ assignments' = <<>>
    /\ iterations' = 0
    /\ iter' = 0
    /\ newCentroids' = <<>>
    /\ result' = NoResult
    /\ rounds' = 0
    /\ previous' = <<>>

\* lines 124-140: the early return, or the call of suggestK (k omitted) or
\* of kmeans (k given)
RunClusteringEntry ==
    /\ rcpc = "entry"
    /\ LET data == embeddedIds(bookmarks)
       IN  IF Len(data) < 2
           THEN /\ clustered' = <<[clustersCreated |-> 0, labels |-> <<>>]>>
                /\ rcpc' = "done"
                /\ UNCHANGED numClusters
                /\ UNCHANGED kmVars
                /\ UNCHANGED skVars
           ELSE /\ points' = [j \in 1..Len(data) |-> bookmarks[data[j]].embedding[1]]
                /\ clustered' = clustered
                /\ IF rcK # <<>>
                   THEN /\ numClusters' = rcK[1]
                        /\ callKmeans(rcK[1])
                        /\ rcpc' = "kmeans"
                        /\ UNCHANGED skVars
                   ELSE /\ maxK' = RunClusteringMaxK
                        /\ skpc' = "entry"
                        /\ rcpc' = "suggestK"
                        /\ UNCHANGED <<maxClusters, skK, inertias, suggested,
                                       kmeansCalls>>
                        /\ UNCHANGED <<k, maxIterations, pc, dim, centroids,
                                       initC, assignments, iterations, iter,
                                       newCentroids, result, rounds, previous>>
                        /\ UNCHANGED numClusters
    /\ UNCHANGED <<bookmarks, topics, bookmarkTopics, rcK>>
    /\ UNCHANGED scanVars
    /\ UNCHANGED <<embVars, genVars, uiVars>>
    /\ UNCHANGED cosVars
    /\ UNCHANGED searchVars
    /\ UNCHANGED lblVars

\* lines 136-140, once suggestK has returned
RunClusteringKmeans ==
    /\ rcpc = "suggestK"
    /\ skpc = "done"
    /\ numClusters' = suggested[1]
    /\ callKmeans(suggested[1])
    /\ rcpc' = "kmeans"
    /\ UNCHANGED points
    /\ UNCHANGED <<bookmarks, topics, bookmarkTopics, rcK, clustered>>
    /\ UNCHANGED skVars
    /\ UNCHANGED scanVars
    /\ UNCHANGED <<embVars, genVars, uiVars>>
    /\ UNCHANGED cosVars
    /\ UNCHANGED searchVars
    /\ UNCHANGED lblVars

\* lines 141-182, once kmeans has returned: the labels, the two DELETEs, the
\* loop of INSERTs and UPDATEs, the return
RunClusteringStore ==
    /\ rcpc = "kmeans"
    /\ pc = "done"
    /\ LET data == embeddedIds(bookmarks)
           texts == [j \in 1..Len(data) |-> bookmarks[data[j]].content]
           lbls == getClusterLabels(points, texts, result.assignments,
                                    numClusters, <<result.centroids>>)
           tables == storeClusters(data, result.assignments, lbls, numClusters, 0,
                                   [topics |-> <<>>, links |-> {},
                                    bookmarks |-> bookmarks])
       IN  /\ topics' = tables.topics
           /\ bookmarkTopics' = tables.links
           /\ bookmarks' = tables.bookmarks
           /\ clustered' = <<[clustersCreated |-> numClusters, labels |-> lbls]>>
    /\ rcpc' = "done"
    /\ UNCHANGED <<rcK, numClusters>>
    /\ UNCHANGED kmVars
    /\ UNCHANGED skVars
    /\ UNCHANGED scanVars
    /\ UNCHANGED <<embVars, genVars, uiVars>>
    /\ UNCHANGED cosVars
    /\ UNCHANGED searchVars
    /\ UNCHANGED lblVars

NextRunClustering ==
    \/ RunClusteringEntry
    \/ RunClusteringKmeans
    \/ RunClusteringStore
    \/ SuggestKEntry
    \/ SuggestKCall
    \/ SuggestKInertia
    \/ SuggestKElbow
    \/ KmeansEntry
    \/ InitFirstCentroid
    \/ InitNextCentroid
    \/ InitialAssign
    \/ Loop
    \/ Reassign

\* the embeddings of the store of a runClustering call
RunPoints == {<<0, 0>>, <<2, 0>>}

\* the rows of bookmarks: at most one row without an embedding, the first,
\* then rows with an embedding, one order per multiset of embeddings; every
\* content a text with words, or every other one a text without
StoredBookmarks ==
    {[i \in 1..(Len(nulls) + Len(embs)) |->
        Bookmark(IF i <= Len(nulls) THEN <<>> ELSE <<embs[i - Len(nulls)]>>,
                 IF blanks /\ i % 2 = 1 THEN BlankText ELSE PlainText,
                 <<>>)] :
        nulls \in {<<>>, <<0>>},
        embs \in {s \in UNION {[1..n -> RunPoints] : n \in 0..MaxRunDocs} :
                     \A i \in 1..Len(s) : \A j \in i..Len(s) : LexLeq(s[i], s[j])},
        blanks \in BOOLEAN}

\* the text of a topic name the store holds before the call
EarlierName == <<"o", "l", "d">>

\* a call runClustering(k), k omitted or at least 1, on a store whose topic
\* tables are empty or hold a topic of id 1 linked to the bookmark of id 1,
\* as an earlier run, or createTopic and linkBookmarkToTopic of
\* src/src/db/queries.ts, left them
InitRunClustering ==
    /\ bookmarks \in StoredBookmarks
    /\ \/ /\ topics = <<>>
          /\ bookmarkTopics = {}
       \/ /\ Len(bookmarks) >= 1
          /\ topics = <<Topic(1, EarlierName, 1, 0, 0)>>
          /\ bookmarkTopics = {Link(1, 1, ScoreScale, 0)}
    /\ rcK \in {<<>>} \cup {<<j>> : j \in 1..(Len(embeddedIds(bookmarks)) + 1)}
    /\ rcpc = "entry"
    /\ numClusters = 0
    /\ clustered = <<>>
    /\ ClusterIdle
    /\ AppIdle("none")
    /\ CosineIdle
    /\ SearchIdle
    /\ LabelsIdle

SpecRunClustering == InitRunClustering /\ [][NextRunClustering]_vars

---------------------------------------------------------------------------
(* The embedder, src/src/analysis/embeddings.ts lines 3-39 *)

\* Calls of getEmbedder, embed and embedBatch overlap: each runs to its next
\* await in one step.  A call is at "loading" while it awaits pipeline(...)
\* (line 10), at "model" once it holds the handle getEmbedder returned, at
\* "failed" when pipeline(...) rejected.  A provider is a positive number.

\* lines 7-10, 18-19, 24-25: a call enters getEmbedder; it finds a handle,
\* or calls pipeline(...) and awaits it
EmbedderCall ==
    /\ Len(embedCalls) < MaxEmbedCalls
    /\ \E call \in {[fn |-> "getEmbedder", left |-> 0], [fn |-> "embed", left |-> 1]}
                   \cup {[fn |-> "embedBatch", left |-> n] : n \in 0..MaxBatch} :
          IF extractor = 0
          THEN /\ pipelines' = pipelines + 1
               /\ embedCalls' = Append(embedCalls,
                                       [fn |-> call.fn, at |-> "loading",
                                        handle |-> pipelines + 1, left |-> call.left])
          ELSE /\ pipelines' = pipelines
               /\ embedCalls' = Append(embedCalls,
                                       [fn |-> call.fn, at |-> "model",
                                        handle |-> extractor, left |-> call.left])
    /\ UNCHANGED extractor
    /\ UNCHANGED <<kmVars, skVars, scanVars, cosVars, searchVars, lblVars, rcVars>>
    /\ UNCHANGED <<genVars, uiVars>>

\* lines 10-15: pipeline(...) settles for a call that awaits it; the provider
\* it created is assigned to extractor and returned, or the rejection
\* propagates
PipelineSettles ==
    /\ \E i \in 1..Len(embedCalls) :
          /\ embedCalls[i].at = "loading"
          /\ \/ /\ extractor' = embedCalls[i].handle
                /\ embedCalls' = [embedCalls EXCEPT ![i].at = "model"]
             \/ /\ extractor' = extractor
                /\ embedCalls' = [embedCalls EXCEPT ![i].at = "failed"]
    /\ UNCHANGED pipelines
    /\ UNCHANGED <<kmVars, skVars, scanVars, cosVars, searchVars, lblVars, rcVars>>
    /\ UNCHANGED <<genVars, uiVars>>

\* lines 20 and 33: a call of embed or embedBatch runs the model it holds on
\* its next text
ModelCall ==
    /\ \E i \in 1..Len(embedCalls) :
          /\ embedCalls[i].at = "model"
          /\ embedCalls[i].left > 0
          /\ embedCalls' = [embedCalls EXCEPT ![i].left = @ - 1]
    /\ UNCHANGED <<extractor, pipelines>>
    /\ UNCHANGED <<kmVars, skVars, scanVars, cosVars, searchVars, lblVars, rcVars>>
    /\ UNCHANGED <<genVars, uiVars>>

NextEmbedder ==
    \/ EmbedderCall
    \/ PipelineSettles
    \/ ModelCall

\* the process after the module is loaded: extractor is null (line 3)
InitEmbedder ==
    /\ extractor = 0
    /\ pipelines = 0
    /\ embedCalls = <<>>
    /\ ClusterIdle
    /\ CosineIdle
    /\ SearchIdle
    /\ LabelsIdle
    /\ StoreIdle
    /\ AppIdle("embedder")

SpecEmbedder == InitEmbedder /\ [][NextEmbedder]_vars

---------------------------------------------------------------------------
(* generateEmbeddings, src/src/analysis/index.ts lines 20-85 *)

\* An embedding is written as <<p>>, p the number of the pass that wrote it
\* (0 for an embedding the store held before the first pass).  Passes run
\* one after the other.  The provider (embed, line 65) returns or fails.

\* getUnembeddedBookmarks without the WHERE clause of line 26: every bookmark
allBookmarks(st) ==
    LET ids == DOMAIN st
    IN  [j \in 1..Cardinality(ids) |->
           CHOOSE i \in ids : Cardinality({x \in ids : x > i}) = j - 1]

\* lines 20-43: the ids of the bookmarks whose embedding IS NULL, in the
\* order of the query (latest first; the id stands for bookmarked_at)
getUnembeddedBookmarks(st) ==
    LET ids == {i \in DOMAIN st : st[i] = <<>>}
    IN  [j \in 1..Cardinality(ids) |->
           CHOOSE i \in ids : Cardinality({x \in ids : x > i}) = j - 1]

\* lines 49-56: a pass starts; it returns 0 when nothing is selected
GenerateCall ==
    /\ gpc \in {"idle", "returned", "threw"}
    /\ Len(outcomes) < MaxPasses
    /\ todo' = getUnembeddedBookmarks(genStore)
    /\ processed' = 0
    /\ IF Len(getUnembeddedBookmarks(genStore)) = 0
       THEN /\ gpc' = "returned"
            /\ outcomes' = Append(outcomes, Returns(0))
       ELSE /\ gpc' = "loop"
            /\ outcomes' = outcomes
    /\ UNCHANGED <<genStore, embedCounts>>
    /\ UNCHANGED <<kmVars, skVars, scanVars, cosVars, searchVars, lblVars, rcVars>>
    /\ UNCHANGED <<embVars, uiVars>>

\* lines 58-84: one turn of the loop (embed, UPDATE, indexBookmarkFts,
\* processed++), in which embed can fail, or the return after the last turn
GenerateLoop ==
    /\ gpc = "loop"
    /\ IF processed < Len(todo)
       THEN \/ /\ gpc' = "threw"
               /\ outcomes' = Append(outcomes, Thrown)
               /\ UNCHANGED <<genStore, processed, embedCounts>>
            \/ /\ embedCounts' = [embedCounts EXCEPT ![todo[processed + 1]] = @ + 1]
               /\ genStore' = [genStore EXCEPT
                                 ![todo[processed + 1]] = <<Len(outcomes) + 1>>]
               /\ processed' = processed + 1
               /\ UNCHANGED <<gpc, outcomes>>
       ELSE /\ gpc' = "returned"
            /\ outcomes' = Append(outcomes, Returns(processed))
            /\ UNCHANGED <<genStore, processed, embedCounts>>
    /\ UNCHANGED todo
    /\ UNCHANGED <<kmVars, skVars, scanVars, cosVars, searchVars, lblVars, rcVars>>
    /\ UNCHANGED <<embVars, uiVars>>

NextGenerate ==
    \/ GenerateCall
    \/ GenerateLoop

\* a store of bookmarks, each with or without an embedding, before the
\* first pass
InitGenerate ==
    /\ genStore \in UNION {[1..n -> {<<>>, <<0>>}] : n \in 0..MaxGenDocs}
    /\ gpc = "idle"
    /\ todo = <<>>
    /\ processed = 0
    /\ embedCounts = [i \in DOMAIN genStore |-> 0]
    /\ outcomes = <<>>
    /\ ClusterIdle
    /\ CosineIdle
    /\ SearchIdle
    /\ LabelsIdle
    /\ StoreIdle
    /\ AppIdle("generate")

SpecGenerate == InitGenerate /\ [][NextGenerate]_vars

---------------------------------------------------------------------------
(* The Analyze screen, src/src/ui/screens/Analyze.tsx lines 19-95 *)

\* The handler of useInput reads the component state "state".  A key press
\* is delivered to the handler of the latest render, so the handler reads
\* the value the last setState wrote.  A handler runs to its first await in
\* the step of the key press that calls it; the operation it awaits then
\* moves through its phases (runFullAnalysis: embedding, clustering,
\* indexing; index.ts lines 186-207) and resolves or rejects.

\* the key presses: a character, or the escape key
Keys == {[input |-> c, escape |-> FALSE] : c \in {"1", "2", "3", "b", "x"}}
          \cup {[input |-> "", escape |-> TRUE]}

\* ignored without the test of lines 82-84
neverIgnored(st) == FALSE

\* lines 82-84: the handler returns at once
ignored(st) == st = "running"

\* lines 81-95 with the synchronous part of the handler called (lines 26-32,
\* 42-47, 61-66)
KeyPress ==
    /\ screen = "analyze"
    /\ pressed < MaxKeys
    /\ pressed' = pressed + 1
    /\ \E key \in Keys :
          IF ignored(state)
          THEN UNCHANGED <<state, screen, ops>>
          ELSE IF key.escape \/ key.input = "b"
          THEN /\ screen' = "left"
               /\ UNCHANGED <<state, ops>>
          ELSE IF key.input = "1"
          THEN /\ state' = "running"
               /\ ops' = Append(ops, [handler |-> "full", phase |-> "embedding"])
               /\ UNCHANGED screen
          ELSE IF key.input = "2"
          THEN /\ state' = "running"
               /\ ops' = Append(ops, [handler |-> "embeddings", phase |-> "embedding"])
               /\ UNCHANGED screen
          ELSE IF key.input = "3"
          THEN /\ state' = "running"
               /\ ops' = Append(ops, [handler |-> "clustering", phase |-> "clustering"])
               /\ UNCHANGED screen
          ELSE UNCHANGED <<state, screen, ops>>
    /\ UNCHANGED <<kmVars, skVars, scanVars, cosVars, searchVars, lblVars, rcVars>>
    /\ UNCHANGED <<embVars, genVars>>

\* lines 31-38, 46-57, 65-78: the awaited operation rejects (catch:
\* setState("error")), or moves to its next phase, or resolves
\* (setState("complete"))
OpAdvances ==
    /\ \E i \in 1..Len(ops) :
          /\ ops[i].phase \in {"embedding", "clustering", "indexing"}
          /\ \/ /\ ops' = [ops EXCEPT ![i].phase = "rejected"]
                /\ state' = "error"
             \/ LET next == IF ops[i].handler = "full" /\ ops[i].phase = "embedding"
                             THEN "clustering"
                             ELSE IF ops[i].handler = "full" /\ ops[i].phase = "clustering"
                             THEN "indexing"
                             ELSE "resolved"
                IN  /\ ops' = [ops EXCEPT ![i].phase = next]
                    /\ state' = IF next = "resolved" THEN "complete" ELSE state
    /\ UNCHANGED <<screen, pressed>>
    /\ UNCHANGED <<kmVars, skVars, scanVars, cosVars, searchVars, lblVars, rcVars>>
    /\ UNCHANGED <<embVars, genVars>>

NextAnalyze ==
    \/ KeyPress
    \/ OpAdvances

\* the screen when it is mounted: useState("idle") of line 20
InitAnalyze ==
    /\ state = "idle"
    /\ screen = "analyze"
    /\ ops = <<>>
    /\ pressed = 0
    /\ ClusterIdle
    /\ CosineIdle
    /\ SearchIdle
    /\ LabelsIdle
    /\ StoreIdle
    /\ AppIdle("analyze")

SpecAnalyze == InitAnalyze /\ [][NextAnalyze]_vars

---------------------------------------------------------------------------
(* Properties of kmeans, checked under SpecKmeans *)

N == Len(points)

Returned == pc = "done"

\* C1: on N >= 1 points with k >= N, kmeans returns the identity assignment,
\* centroids that are copies of the points in input order, and iterations = 1.
C1_SingletonClusters ==
    (Returned /\ N >= 1 /\ k >= N) =>
        /\ result.assignments = [i \in 1..N |-> i - 1]
        /\ result.centroids = [i \in 1..N |-> [d \in 1..Len(points[i]) |->
                                                  points[i][d] * Scale]]
        /\ result.iterations = 1

C1_Witness ==
    /\ Returned /\ N = 3 /\ k = N
    /\ result.assignments = <<0, 1, 2>>
    /\ points[1] # points[2]

\* C2: on N >= 1 points with k >= 1, the returned assignments has N entries,
\* each a cluster id in [0,k) that indexes an entry of the returned centroids,
\* and the centroids has k entries, or N entries when N < k.
C2_ResultShape ==
    (Returned /\ N >= 1 /\ k >= 1) =>
        /\ Len(result.assignments) = N
        /\ \A i \in 1..N :
              /\ result.assignments[i] \in 0..(k - 1)
              /\ result.assignments[i] + 1 \in DOMAIN result.centroids
        /\ Len(result.centroids) = (IF N < k THEN N ELSE k)

C2_Witness ==
    /\ Returned /\ N = 4 /\ k = 3 /\ rounds >= 2
    /\ Len(result.centroids) = 3
    /\ \E i \in 1..N : result.assignments[i] = 2

\* C6: on an empty point list kmeans returns the empty result with
\* iterations = 0, for every k and maxIterations.
C6_EmptyInput ==
    (Returned /\ N = 0) =>
        result = [assignments |-> <<>>, centroids |-> <<>>, iterations |-> 0]

C6_Witness ==
    /\ Returned /\ N = 0 /\ k = 1 /\ maxIterations = DefaultMaxIterations
    /\ result.iterations = 0

\* the arguments take kmeans through k-means++ and Lloyd's loop
Lloyd == 1 <= k /\ k < N

\* the number of distinct point locations
DistinctLocations == Cardinality({points[i] : i \in 1..N})

\* C3: with 1 <= k < N, after every recomputation there are k centroids, each
\* a defined vector of the points' dimension, and the centroid of a cluster
\* that received no point is a copy of some point of the whole input.
C3_EmptyClusterReseeded ==
    (pc = "reassign" /\ Lloyd) =>
        /\ Len(newCentroids) = k
        /\ \A c \in 0..(k - 1) :
              /\ DOMAIN newCentroids[c + 1] = 1..Len(points[1])
              /\ \A d \in 1..Len(points[1]) : newCentroids[c + 1][d] \in Int
              /\ (\A i \in 1..N : assignments[i] # c) =>
                    \E i \in 1..N :
                       \A d \in 1..Len(points[1]) :
                          newCentroids[c + 1][d] = points[i][d] * Scale

\* k exceeds the number of distinct locations, cluster 1 received no point and
\* is reseeded with a point that is assigned to cluster 0
C3_Witness ==
    /\ pc = "reassign" /\ Lloyd
    /\ k > DistinctLocations
    /\ \A i \in 1..N : assignments[i] # 1
    /\ \E i \in 1..N : /\ assignments[i] = 0
                       /\ newCentroids[2] = [d \in 1..Len(points[i]) |->
                                                points[i][d] * Scale]
    /\ newCentroids[2] # newCentroids[1]

\* the steps kmeans has left, at most
Measure ==
    CASE pc = "call"      -> 2 * maxIterations + 4 + Max(k - 1, 0)
      [] pc = "initFirst" -> 2 * maxIterations + 3 + Max(k - 1, 0)
      [] pc = "initNext"  -> 2 * maxIterations + 2 + Max(k - initC, 0)
      [] pc = "loop"      -> 2 * Max(maxIterations - iter, 0) + 1
      [] pc = "reassign"  -> 2 * (maxIterations - iter)
      [] OTHER            -> 0

\* the assignment vector the last round produced
Latest == IF Returned THEN result.assignments ELSE assignments

\* the last round left the assignment as it was
LastRoundFixpoint == rounds >= 1 /\ Latest = previous

C4_Rounds ==
    Lloyd =>
        /\ rounds <= maxIterations
        /\ (Returned /\ rounds < maxIterations) => LastRoundFixpoint
        /\ (pc = "loop" /\ rounds >= 1) => ~LastRoundFixpoint

\* kmeans has a step to take: it is at a position of the code, and the random
\* draw made there, if any, has an outcome
CanStep ==
    \/ pc = "call"
    \/ pc = "initFirst" /\ RandomIndex(N) # {}
    \/ pc = "initNext" /\ initC < k
          /\ rouletteOutcomes(distancesTo(points, centroids)) # {}
    \/ pc = "initNext" /\ ~(initC < k)
    \/ pc = "loop" /\ iter < maxIterations
          /\ (emptyClusters(points, assignments, k, dim) = {} \/ RandomIndex(N) # {})
    \/ pc = "loop" /\ ~(iter < maxIterations)
    \/ pc = "reassign"

\* C4: kmeans terminates on every input under every random draw (every step
\* lowers a natural-number measure and only the returned state has no step);
\* with 1 <= k < N it runs at most maxIterations rounds, and it returns at the
\* first round whose reassignment equals the previous assignment.
C4_Terminates ==
    /\ [](C4_Rounds /\ Measure >= 0 /\ (~Returned => CanStep))
    /\ [][Measure' < Measure]_vars

\* returned by convergence after three rounds, before maxIterations
C4_Witness ==
    /\ Returned /\ Lloyd
    /\ rounds = 3 /\ rounds < maxIterations
    /\ LastRoundFixpoint

\* C5: with 1 <= k < N, the returned iterations is the number of
\* recompute-and-reassign rounds that were executed.
C5_IterationsAreRounds ==
    (Returned /\ Lloyd) => result.iterations = rounds

\* p is at minimum distance from centroid id a among cs, and every centroid
\* with a lower id is strictly farther
NearestLowestId(p, a, cs) ==
    /\ a + 1 \in DOMAIN cs
    /\ \A c \in 0..(Len(cs) - 1) :
          /\ euclideanDistanceSq(CopyOf(p), cs[a + 1])
                <= euclideanDistanceSq(CopyOf(p), cs[c + 1])
          /\ c < a => euclideanDistanceSq(CopyOf(p), cs[a + 1])
                         < euclideanDistanceSq(CopyOf(p), cs[c + 1])

\* C7: the assignment step gives every point a centroid at minimum Euclidean
\* distance, the lowest cluster id among those at that distance.
C7_NearestLowestId ==
    /\ (pc = "loop" /\ k >= 1) =>
          \A i \in 1..N : NearestLowestId(points[i], assignments[i], centroids)
    /\ (Returned /\ Lloyd /\ rounds >= 1 /\ LastRoundFixpoint) =>
          \A i \in 1..N :
             NearestLowestId(points[i], result.assignments[i], result.centroids)

\* a point at the same distance from two different centroids stays with the
\* lower id
C7_Witness ==
    /\ pc = "loop" /\ Lloyd /\ k >= 2
    /\ \E i \in 1..N :
          /\ assignments[i] = 0
          /\ centroids[1] # centroids[2]
          /\ euclideanDistanceSq(CopyOf(points[i]), centroids[1])
                = euclideanDistanceSq(CopyOf(points[i]), centroids[2])
          /\ euclideanDistanceSq(CopyOf(points[i]), centroids[1]) > 0

---------------------------------------------------------------------------
(* Properties of suggestK, checked under SpecSuggestK and SpecElbow *)

Suggested == skpc = "done"

\* C8: on N <= 3 points suggestK returns max(1, N) for every maxK, and kmeans
\* is never invoked.
C8_SmallInput ==
    (N <= 3) =>
        /\ kmeansCalls = <<>>
        /\ pc = "idle"
        /\ Suggested => suggested = <<IF N >= 1 THEN N ELSE 1>>

C8_Witness ==
    /\ Suggested /\ N = 3 /\ maxK = 1
    /\ suggested = <<3>>
    /\ kmeansCalls = <<>>

\* the second derivative at the interior 0-based index i of ins
SecondDerivative(ins, i) == ins[i] - 2 * ins[i + 1] + ins[i + 2]

\* the interior 0-based indices of ins with a positive second derivative
PositiveBends(ins) ==
    {i \in 1..(Len(ins) - 2) : SecondDerivative(ins, i) > 0}

\* the indices of PositiveBends with the largest second derivative
SharpestBends(ins) ==
    {i \in PositiveBends(ins) :
        \A j \in PositiveBends(ins) :
           SecondDerivative(ins, j) <= SecondDerivative(ins, i)}

\* C9: the elbow scan returns k = i + 1 for the interior index i whose second
\* derivative is the largest positive one, the smallest such k on ties, and 2
\* when no interior index has a positive second derivative.
C9_Elbow ==
    (scanOut # <<>>) =>
        IF PositiveBends(scanIn) = {}
        THEN scanOut[1] = 2
        ELSE /\ scanOut[1] - 1 \in SharpestBends(scanIn)
             /\ \A i \in SharpestBends(scanIn) : scanOut[1] <= i + 1

\* two interior indices tie for the largest positive second derivative and
\* the scan returns the lower k
C9_Witness ==
    /\ scanOut = <<2>>
    /\ SharpestBends(scanIn) = {1, 2}

\* the bound of the scan of suggestK
ScanBound == IF maxK <= N \div 2 THEN maxK ELSE N \div 2

\* C10: on N >= 4 points with maxK >= 1, suggestK runs kmeans once for each k
\* from 1 to min(maxK, floor(N/2)), each with maxIterations = 50, and returns a
\* k that is at least 1 and at most min(maxK, floor(N/2)).
C10_ScanWithinBound ==
    (Suggested /\ N >= 4 /\ maxK >= 1) =>
        /\ kmeansCalls = [j \in 1..ScanBound |-> <<j, 50>>]
        /\ 1 <= suggested[1]
        /\ suggested[1] <= ScanBound

---------------------------------------------------------------------------
(* Properties of the search module, checked under SpecSearch *)

\* hybridSearch has returned
Searched == hpc = "done"

\* the list hybridSearch returned
Merged == merged[1]

VectorIds == {vectorResults[i].id : i \in 1..Len(vectorResults)}

FtsIds == {ftsResults[i].id : i \in 1..Len(ftsResults)}

\* the score of the entry of id in the list rs
ScoreIn(rs, id) == rs[CHOOSE i \in 1..Len(rs) : rs[i].id = id].score

\* ten times the score the merge rule gives the id
TenTimesRuleScore(id) ==
    IF id \in VectorIds
    THEN IF id \in FtsIds THEN 12 * ScoreIn(vectorResults, id)
                          ELSE 10 * ScoreIn(vectorResults, id)
    ELSE 5 * ScoreIn(ftsResults, id)

\* the scenario: 0.9 and 0.5; 0.3 and 0.2; 1.08, 0.5 and 0.1
ScenarioVector == <<SearchResult(1, 900), SearchResult(2, 500)>>
ScenarioLexical == <<SearchResult(1, 300), SearchResult(3, 200)>>
ScenarioMerged ==
    <<SearchResult(1, 1080), SearchResult(2, 500), SearchResult(3, 100)>>

\* C11: every entry hybridSearch returns is a vector result with its score
\* times 1.2 when its id is among the lexical results and unchanged otherwise,
\* or a lexical result whose id is not among the vector results with its
\* score times 0.5; every such id is returned when the limit leaves room; on
\* the vector results (1, 0.9), (2, 0.5) and the lexical results (1, 0.3),
\* (3, 0.2), with a limit of 3 or more, the result is (1, 1.08), (2, 0.5),
\* (3, 0.1) in this order.
C11_MergeRule ==
    Searched =>
        /\ \A i \in 1..Len(Merged) :
              /\ Merged[i].id \in VectorIds \cup FtsIds
              /\ 10 * Merged[i].score = TenTimesRuleScore(Merged[i].id)
        /\ Cardinality(VectorIds \cup FtsIds) <= limit
              => {Merged[i].id : i \in 1..Len(Merged)} = VectorIds \cup FtsIds
        /\ (/\ vectorResults = ScenarioVector
            /\ ftsResults = ScenarioLexical
            /\ limit >= Len(ScenarioMerged))
              => Merged = ScenarioMerged

\* the scenario has run
C11_Witness ==
    /\ Searched
    /\ vectorResults = ScenarioVector
    /\ ftsResults = ScenarioLexical
    /\ Merged = ScenarioMerged

\* C12: the list hybridSearch returns has no id twice, is in descending order
\* of merged score, and has min(limit, number of distinct ids among the vector
\* and lexical results) entries.
C12_MergedShape ==
    Searched =>
        /\ \A i \in 1..Len(Merged) : \A j \in 1..Len(Merged) :
              i # j => Merged[i].id # Merged[j].id
        /\ \A i \in 1..(Len(Merged) - 1) : Merged[i].score >= Merged[i + 1].score
        /\ Len(Merged) = Min(limit, Cardinality(VectorIds \cup FtsIds))

\* an id is in both lists, the limit cuts the merged list, and the lexical
\* pass overtakes a vector result
C12_Witness ==
    /\ Searched
    /\ VectorIds \cap FtsIds # {}
    /\ Cardinality(VectorIds \cup FtsIds) > limit
    /\ Len(Merged) >= 2
    /\ Merged[1].id \in FtsIds \ VectorIds
    /\ Merged[1].score > Merged[2].score

\* C13: when ftsSearch fails, hybridSearch does not fail and returns the
\* vector results: same entries, same scores, same order.
C13_FailOpen ==
    ftsFailed =>
        /\ hpc # "failed"
        /\ ftsResults = <<>>
        /\ Searched => Merged = vectorResults

\* ftsSearch failed and hybridSearch returned two or more vector results
C13_Witness ==
    /\ Searched
    /\ ftsFailed
    /\ Len(vectorResults) >= 2
    /\ Merged = vectorResults

\* the scores of the list rs are not negative
NonNegative(rs) == \A i \in 1..Len(rs) : rs[i].score >= 0

\* C14: every entry returned by vectorSearch, ftsSearch and hybridSearch has
\* a score that is not negative.
C14_NonNegativeScores ==
    /\ NonNegative(vectorResults)
    /\ NonNegative(ftsReturned)
    /\ Searched => NonNegative(Merged)

\* vectorSearch has returned
VectorSearched == hpc # "vector"

\* the ids of the bookmarks that have an embedding
Embedded == {i \in 1..MaxDocs : embeddings[i] # <<>>}

\* the cosine similarity of the query embedding and the embedding of id
Similarity(id) == cosineSimilarity(queryEmbedding[1], embeddings[id][1]).value

\* C15: vectorSearch returns bookmarks that have an embedding, each once and
\* with its cosine similarity to the query embedding as score, in descending
\* order of score; no bookmark left out has a strictly higher similarity than
\* a returned one; the length is min(limit, number of embedded bookmarks).
C15_VectorRanking ==
    VectorSearched =>
        /\ \A i \in 1..Len(vectorResults) :
              /\ vectorResults[i].id \in Embedded
              /\ vectorResults[i].score = Similarity(vectorResults[i].id)
              /\ \A j \in 1..Len(vectorResults) :
                    i # j => vectorResults[i].id # vectorResults[j].id
              /\ \A d \in Embedded \ VectorIds :
                    Similarity(d) <= vectorResults[i].score
        /\ \A i \in 1..(Len(vectorResults) - 1) :
              vectorResults[i].score >= vectorResults[i + 1].score
        /\ Len(vectorResults) = Min(limit, Cardinality(Embedded))

\* the limit leaves out the bookmark of lowest id, which has the lowest
\* similarity
C15_Witness ==
    /\ VectorSearched
    /\ Len(vectorResults) >= 2
    /\ 1 \in Embedded \ VectorIds
    /\ Similarity(1) < vectorResults[Len(vectorResults)].score
    /\ vectorResults[1].score > vectorResults[2].score

---------------------------------------------------------------------------
(* Properties of cosineSimilarity, checked under SpecCosine *)

\* cosineSimilarity(cosA, cosB) has returned or thrown
CosineDone == cosOut # <<>>

\* the magnitude of a is 0
ZeroMagnitude(a) == \A i \in 1..Len(a) : a[i] = 0

\* C16: cosineSimilarity(a, b) throws when a and b differ in dimension; for
\* equal dimensions it returns, and it returns 0 when the magnitude of a or of
\* b is 0 (no quotient by a zero magnitude is taken: a division by 0 stops
\* the evaluation).
C16_CosineErrors ==
    CosineDone =>
        /\ Len(cosA) # Len(cosB) => cosOut[1].threw
        /\ Len(cosA) = Len(cosB) =>
              /\ ~cosOut[1].threw
              /\ (ZeroMagnitude(cosA) \/ ZeroMagnitude(cosB))
                    => cosOut[1].value = 0

\* a zero vector against a non-zero vector of its dimension gives 0
C16_Witness ==
    /\ CosineDone
    /\ Len(cosA) = Len(cosB)
    /\ Len(cosA) >= 2
    /\ ZeroMagnitude(cosA)
    /\ ~ZeroMagnitude(cosB)
    /\ ~cosOut[1].threw
    /\ cosOut[1].value = 0

\* C17 as claimed: for a and b of one dimension cosineSimilarity(a, b) equals
\* cosineSimilarity(b, a), and cosineSimilarity(a, a) is 1 for every vector a.
C17_SymmetricSelfOne ==
    (CosineDone /\ Len(cosA) = Len(cosB)) =>
        /\ cosOut[1] = cosineSimilarity(cosB, cosA)
        /\ cosA = cosB => cosOut[1] = Returns(ScoreScale)

\* C17, amended: for a and b of one dimension cosineSimilarity(a, b) equals
\* cosineSimilarity(b, a); cosineSimilarity(a, a) is 1 for every vector a of
\* non-zero magnitude and 0 for every vector a of zero magnitude.
C17_SymmetricSelfOneUnlessZero ==
    (CosineDone /\ Len(cosA) = Len(cosB)) =>
        /\ cosOut[1] = cosineSimilarity(cosB, cosA)
        /\ (cosA = cosB /\ ~ZeroMagnitude(cosA)) => cosOut[1] = Returns(ScoreScale)
        /\ (cosA = cosB /\ ZeroMagnitude(cosA)) => cosOut[1] = Returns(0)

\* a non-zero vector against itself gives 1
C17_Witness ==
    /\ CosineDone
    /\ cosA = cosB
    /\ ~ZeroMagnitude(cosA)
    /\ cosOut[1] = Returns(ScoreScale)

---------------------------------------------------------------------------
(* Properties of getClusterLabels, checked under SpecLabels *)

\* getClusterLabels has returned
Labelled == lblOut # <<>>

\* position i of t starts a token: a maximal run without whitespace
TokenStart(t, i) ==
    /\ t[i] \notin Whitespace
    /\ i = 1 \/ t[i - 1] \in Whitespace

\* the token at position i of t is a URL: http:// or https:// and one more
\* character at least
UrlToken(t, i) ==
    \E scheme \in {<<"h", "t", "t", "p", ":", "/", "/">>,
                   <<"h", "t", "t", "p", "s", ":", "/", "/">>} :
        /\ HasAt(t, i, scheme)
        /\ i + Len(scheme) <= Len(t)
        /\ t[i + Len(scheme)] \notin Whitespace

\* nothing is left of t once URLs are removed and whitespace is trimmed
CleansToEmpty(t) == \A i \in 1..Len(t) : TokenStart(t, i) => UrlToken(t, i)

\* the 1-based positions of the points assigned to the cluster c
Members(c) == {i \in 1..Len(lblAssignments) : lblAssignments[i] = c}

\* no text of the cluster c leaves a label: each is missing or cleans to empty
NoTextLeft(c) ==
    \A i \in Members(c) : i \in DOMAIN lblTexts => CleansToEmpty(lblTexts[i])

---------------------------------------------------------------------------
(* Properties of runClustering, checked under SpecRunClustering *)

\* runClustering has returned
Clustered == rcpc = "done"

\* C18: once runClustering has returned, every row of topics and of
\* bookmark_topics was inserted by that call: none that the call found in the
\* store remains.
C18_ReplacedWholesale ==
    Clustered =>
        /\ \A t \in 1..Len(topics) : topics[t].run = 1
        /\ \A l \in bookmarkTopics : l.run = 1

\* the ids of the bookmarks the call clustered, in the order of data
Data == embeddedIds(bookmarks)

\* the rows of bookmark_topics of the bookmark id
LinksOf(id) == {l \in bookmarkTopics : l.bookmark_id = id}

\* C19: once a runClustering call on N >= 2 bookmarks with an embedding has
\* returned, each of them has exactly one row in bookmark_topics; its
\* confidence is 1.0, its topic is the row of topics this call inserted for
\* the cluster id kmeans gave the bookmark, and no other row of topics has
\* that id; the cluster_id of the bookmark is that cluster id.
C19_OneTopicPerDocument ==
    (Clustered /\ Len(Data) >= 2) =>
        \A j \in 1..Len(Data) :
            /\ Cardinality(LinksOf(Data[j])) = 1
            /\ \A l \in LinksOf(Data[j]) :
                  /\ l.confidence = ScoreScale
                  /\ l.run = 1
                  /\ \E t \in 1..Len(topics) :
                        /\ topics[t].id = l.topic_id
                        /\ topics[t].run = 1
                        /\ topics[t].cluster = result.assignments[j]
                  /\ Cardinality({t \in 1..Len(topics) : topics[t].id = l.topic_id}) = 1
            /\ bookmarks[Data[j]].cluster_id = <<result.assignments[j]>>

\* the first bookmark has no embedding, three others are clustered into two
\* topics, and the bookmark of id 2 is in cluster 1
C19_Witness ==
    /\ Clustered
    /\ Len(Data) >= 3
    /\ bookmarks[1].embedding = <<>>
    /\ LinksOf(1) = {}
    /\ Len(topics) = 2
    /\ result.assignments[1] = 1
    /\ bookmarks[2].cluster_id = <<1>>

---------------------------------------------------------------------------
(* The inertias of the suggestK scan *)

\* C24 as claimed: across the suggestK scan the inertia computed for k + 1
\* is never greater than the inertia computed for k.
C24_InertiaNonIncreasing ==
    \A i \in 1..(Len(inertias) - 1) : inertias[i + 1] <= inertias[i]

\* C24, amended: across the suggestK scan the inertia computed for any
\* candidate k is never greater than the inertia computed for k = 1 (the
\* sum of the squared distances to the mean of all points).
C24_InertiaNotAboveFirst ==
    \A i \in 1..Len(inertias) : inertias[i] <= inertias[1]

\* a scan has computed the inertias for k = 1, 2, 3 and the inertia rose
\* from k = 2 to k = 3, below the inertia for k = 1
C24_Witness ==
    /\ Len(inertias) = 3
    /\ inertias[3] > inertias[2]
    /\ inertias[3] < inertias[1]

---------------------------------------------------------------------------
(* k-means++ initialization, checked under SpecKmeans *)

\* initializeCentroids has just returned: centroids holds what it returned
Initialized == pc = "loop" /\ rounds = 0

\* the centroid cs[c] is a copy of some input point
CopyOfSomePoint(cs, c) == \E i \in 1..N : cs[c] = CopyOf(points[i])

\* C25: for 1 <= k < N, k-means++ initialization returns exactly k
\* centroids, each a copy of some input point, under every outcome of the
\* random draws; every turn of its loop, the roulette having picked a point
\* or not, adds exactly one centroid.
C25_InitialCentroids ==
    Lloyd =>
        /\ pc = "initNext" =>
              /\ Len(centroids) = initC
              /\ \A c \in 1..Len(centroids) : CopyOfSomePoint(centroids, c)
        /\ Initialized =>
              /\ Len(centroids) = k
              /\ \A c \in 1..k : CopyOfSomePoint(centroids, c)

\* initialization returned three centroids on four points at three
\* locations, two of them copies of one location while a third location
\* was left without a centroid: the second draw fell on a point at distance
\* 0 (a draw of 0, or the fallback)
C25_Witness ==
    /\ Initialized /\ Lloyd /\ N = 4 /\ k = 3
    /\ DistinctLocations = 3
    /\ Len(centroids) = 3
    /\ Cardinality({centroids[c] : c \in 1..3}) = 2

\* C26 as claimed: in the roulette of a turn of the initialization loop, a
\* point at squared distance 0 from its nearest chosen centroid is never
\* the point picked while some other point is at a positive distance.
C26_ZeroDistanceNeverPicked ==
    (Lloyd /\ pc = "initNext" /\ initC < k) =>
        LET distances == distancesTo(points, centroids)
        IN  (\E i \in 1..N : distances[i] > 0) =>
               \A random \in RandomTimes(totalDistOf(distances)) :
                  LET picked == roulette(distances, random, 0)
                  IN  picked # NotPicked => distances[picked + 1] > 0

---------------------------------------------------------------------------
(* The result of kmeans, checked under SpecKmeans *)

\* the points the assignment asg puts in cluster c
ClusterOf(asg, c) == {i \in 1..N : asg[i] = c}

\* the vector cen (in fixed point) is the mean of the points that asg puts
\* in cluster c: count * cen[d] = Scale * sum of the members' coordinate d
IsMeanOf(cen, asg, c) ==
    \A d \in 1..Len(points[1]) :
       Cardinality(ClusterOf(asg, c)) * cen[d] =
          Scale * SeqSum([i \in 1..N |-> IF asg[i] = c THEN points[i][d] ELSE 0], 1)

\* C27 as claimed: in every result returned for 1 <= k < N, by convergence
\* or by exhaustion of maxIterations, the centroid of every cluster with at
\* least one assigned point is the mean of the points that the returned
\* assignments put in that cluster.
C27_CentroidsAreMeans ==
    (Returned /\ Lloyd) =>
        \A c \in 0..(k - 1) :
           ClusterOf(result.assignments, c) # {} =>
              IsMeanOf(result.centroids[c + 1], result.assignments, c)

\* C28: in every result returned for 1 <= k < N, by convergence or by
\* exhaustion of maxIterations, every point is assigned to a returned
\* centroid that is at minimum distance from it among all returned
\* centroids.
C28_AssignedToNearest ==
    (Returned /\ Lloyd) =>
        \A i \in 1..N :
           /\ result.assignments[i] + 1 \in DOMAIN result.centroids
           /\ \A c \in 1..Len(result.centroids) :
                 dist2(points[i], result.centroids[result.assignments[i] + 1])
                    <= dist2(points[i], result.centroids[c])

\* returned by exhaustion after one round, which changed the assignment,
\* with two non-empty clusters
C28_Witness ==
    /\ Returned /\ Lloyd /\ k = 2
    /\ maxIterations = 1 /\ rounds = 1
    /\ ~LastRoundFixpoint
    /\ ClusterOf(result.assignments, 0) # {}
    /\ ClusterOf(result.assignments, 1) # {}

---------------------------------------------------------------------------
(* The count returned by runClustering, checked under SpecRunClustering *)

\* C29 as claimed: the clustersCreated returned by runClustering equals the
\* number of rows of table topics when the call returns, for every explicit
\* k and for the auto-selected k.
C29_ClustersCreatedIsTopicCount ==
    Clustered => clustered[1].clustersCreated = Len(topics)

---------------------------------------------------------------------------
(* The text a label is made of, checked under SpecLabels *)

\* a centroid is supplied for the cluster c
CentroidSupplied(c) == lblCentroids # <<>> /\ c + 1 \in DOMAIN lblCentroids[1]

\* the representative documents of the cluster c: the points assigned to c
\* at minimum squared distance from the centroid supplied for c
Representatives(c) ==
    {i \in Members(c) :
        \A j \in Members(c) :
           dist2(lblPoints[i], lblCentroids[1][c + 1])
              <= dist2(lblPoints[j], lblCentroids[1][c + 1])}

\* the first document assigned to the cluster c, by original index
FirstMember(c) == CHOOSE i \in Members(c) : \A j \in Members(c) : i <= j

\* the label of the cluster c is derived from the text of the document i:
\* URLs removed, whitespace collapsed, cut to 60 characters, or "Cluster N"
\* when the document has no text or nothing is left of it
DerivedFrom(i, c) ==
    lblOut[1][c + 1] =
        IF i \in DOMAIN lblTexts
        THEN snippetOrNumbered(snippetOf(cleaned(lblTexts[i])), c + 1)
        ELSE NumberedLabel(c + 1)

\* C21 as claimed: the label of a non-empty cluster with a supplied centroid
\* is derived from the text of a representative document; the text of the
\* first document of the cluster is used only when no representative has a
\* text at all.
C21_LabelFromRepresentative ==
    Labelled =>
        \A c \in 0..(lblK - 1) :
           (Members(c) # {} /\ CentroidSupplied(c)) =>
              \/ \E i \in Representatives(c) :
                    i \in DOMAIN lblTexts /\ DerivedFrom(i, c)
              \/ /\ \A i \in Representatives(c) : i \notin DOMAIN lblTexts
                 /\ DerivedFrom(FirstMember(c), c)

\* the document i has no text, or the empty text
NoText(i) == i \notin DOMAIN lblTexts \/ lblTexts[i] = EmptyText

\* C21, amended: the label of a non-empty cluster with a supplied centroid
\* is derived from the text of a representative document when that text is
\* not empty, and from the text of the first document of the cluster when
\* the representative document has no text or the empty text; without a
\* supplied centroid it is derived from the text of the first document.
C21_LabelFromRepresentativeWithText ==
    Labelled =>
        \A c \in 0..(lblK - 1) :
           Members(c) # {} =>
              IF CentroidSupplied(c)
              THEN \E i \in Representatives(c) :
                      IF NoText(i) THEN DerivedFrom(FirstMember(c), c)
                      ELSE DerivedFrom(i, c)
              ELSE DerivedFrom(FirstMember(c), c)

\* cluster 0 holds two documents with different texts, the second one
\* nearer to the supplied centroid, and is labelled with the second text
C21_Witness ==
    /\ Labelled /\ lblK = 1
    /\ lblPoints = <<<<2, 0>>, <<0, 0>>>>
    /\ lblAssignments = <<0, 0>>
    /\ CentroidSupplied(0)
    /\ lblTexts = <<LongText, PlainText>>
    /\ lblOut[1][1] = <<"a", " ", "b">>

---------------------------------------------------------------------------
(* The embedder handle, checked under SpecEmbedder *)

\* the providers held by the calls that getEmbedder has returned to
HandlesInUse ==
    {embedCalls[i].handle : i \in {j \in 1..Len(embedCalls) : embedCalls[j].at = "model"}}

\* C22 as claimed: across any interleaving of calls of getEmbedder, embed
\* and embedBatch, calls that overlap the first load included, at most one
\* provider is created and every call uses that one handle.
C22_SingleProvider == Cardinality(HandlesInUse) <= 1

---------------------------------------------------------------------------
(* The passes of generateEmbeddings, checked under SpecGenerate *)

\* the number of the pass that is running or that finished last
Pass == IF gpc = "loop" THEN Len(outcomes) + 1 ELSE Len(outcomes)

\* C23: when the provider fails the pass stops with the error and what it
\* wrote stays stored; a pass selects exactly the bookmarks that have no
\* embedding, so no bookmark is ever embedded twice, one that had an
\* embedding before the first pass is never embedded, a pass that returns
\* returns the number of bookmarks it selected, and the pass after a
\* pass that returned embeds nothing and returns 0.
C23_IdempotentPasses ==
    /\ \A id \in DOMAIN genStore :
          /\ embedCounts[id] <= 1
          /\ genStore[id] = <<0>> => embedCounts[id] = 0
          /\ embedCounts[id] = 1 => genStore[id] # <<>>
    /\ gpc \in {"loop", "threw", "returned"} =>
          /\ \A i \in 1..Len(todo) : \A j \in 1..Len(todo) :
                todo[i] = todo[j] => i = j
          /\ \A j \in 1..Len(todo) :
                genStore[todo[j]] = (IF j <= processed THEN <<Pass>> ELSE <<>>)
          /\ \A id \in DOMAIN genStore :
                genStore[id] = <<Pass>> => \E j \in 1..processed : todo[j] = id
    /\ gpc = "threw" => outcomes[Len(outcomes)] = Thrown /\ processed < Len(todo)
    /\ gpc = "returned" => outcomes[Len(outcomes)] = Returns(Len(todo))
    /\ \A p \in 1..(Len(outcomes) - 1) :
          outcomes[p] # Thrown => outcomes[p + 1] = Returns(0)

\* the provider failed in the first pass after one bookmark of three; the
\* second pass embedded the other two and returned 2; the third returned 0
C23_Witness ==
    /\ outcomes = <<Thrown, Returns(2), Returns(0)>>
    /\ genStore = <<<<2>>, <<2>>, <<1>>>>
    /\ embedCounts = <<1, 1, 1>>

---------------------------------------------------------------------------
(* The operations of the Analyze screen, checked under SpecAnalyze *)

\* the operations started and not yet resolved or rejected
InFlight == {i \in 1..Len(ops) : ops[i].phase \notin {"resolved", "rejected"}}

\* at most one operation is in flight; while one is, the state is running
\* and the screen has not been left; the state is running only while one
\* is; at most one operation is in its clustering phase
OneInFlight ==
    /\ Cardinality(InFlight) <= 1
    /\ InFlight # {} => (state = "running" /\ screen = "analyze")
    /\ state = "running" => InFlight # {}
    /\ Cardinality({i \in 1..Len(ops) : ops[i].phase = "clustering"}) <= 1

\* a key press delivered while the state is running changes nothing
KeysIgnoredWhileRunning ==
    (state = "running" /\ pressed' = pressed + 1) => UNCHANGED <<state, screen, ops>>

\* C30: from the Analyze screen at most one analysis operation is in flight
\* at any time: while the state is running every key press is ignored, so
\* no second operation starts and the screen is not left before the running
\* operation has resolved or rejected, and no two clustering phases overlap.
C30_OneOperationInFlight == []OneInFlight /\ [][KeysIgnoredWhileRunning]_vars

\* a full analysis has resolved, a clustering is in flight, and four keys
\* were pressed: two of them started nothing
C30_Witness ==
    /\ ops = <<[handler |-> "full", phase |-> "resolved"],
               [handler |-> "clustering", phase |-> "clustering"]>>
    /\ state = "running"
    /\ pressed = 4

====
